---- MODULE Spec2Model ----
(***************************************************************************)
(* Model of the Decision module of Open/R (openr/decision/Decision.cpp):   *)
(* the route-delta builder, the static MPLS route squasher of SpfSolver    *)
(* and the Decision event loop with its debounce, cold-start and           *)
(* RibPolicy timers.                                                       *)
(***************************************************************************)
EXTENDS Integers, Sequences, FiniteSets, TLC

VARIABLES
  callArgs,              \* the last call or handler run: its name and inputs
  callRet,               \* what it gave back to its caller (None for none)
  staticRoutes_,         \* SpfSolverImpl::staticRoutes_.mplsRoutes
  staticRoutesUpdates_,  \* SpfSolverImpl::staticRoutesUpdates_
  config_,               \* the configuration Decision was constructed with
  areaLinkStates_,       \* area -> LinkState
  prefixState_,          \* PrefixState::prefixes()
  perPrefixPrefixEntries_,
  fullDbPrefixEntries_,
  fibTimes_,             \* node -> the FIB time it reported
  pendingUpdates_,       \* PendingUpdates: needsRouteUpdate
  processUpdatesBackoff_, \* current backoff of the debounce
  processUpdatesTimer_,  \* None, or Some(time left) while scheduled
  coldStartTimer_,       \* TRUE while scheduled
  orderedFibTimer_,      \* TRUE while scheduled
  ribPolicy_,            \* None, or Some of the policy held
  ribPolicyTimer_,       \* TRUE while scheduled
  routeDb_,              \* the route database last sent
  routeUpdatesQueue_,    \* what the last handler pushed, in push order
  fibRoutes,             \* the reader's table: every route delta applied
  burst,                 \* None, or the age of the notifications not yet
                         \* processed and the age of the latest of them
  aborted,               \* "" or the check that ended the process
  kvStoreReader,         \* the fiber reading kvStoreUpdatesQueue: "reading"
                         \* in its loop, "terminated" after its break
  staticRoutesReader     \* the same for the fiber of staticRoutesUpdateQueue

solverVars == <<staticRoutes_, staticRoutesUpdates_>>

decisionVars ==
  <<config_, areaLinkStates_, prefixState_, perPrefixPrefixEntries_,
    fullDbPrefixEntries_, fibTimes_, pendingUpdates_, processUpdatesBackoff_,
    processUpdatesTimer_, coldStartTimer_, orderedFibTimer_, ribPolicy_,
    ribPolicyTimer_, routeDb_, routeUpdatesQueue_, fibRoutes, burst, aborted,
    kvStoreReader, staticRoutesReader>>

vars == <<callArgs, callRet, solverVars, decisionVars>>

-----------------------------------------------------------------------------
(* std::optional / thrift optional fields: the empty set or a singleton.   *)

None == {}

Some(x) == {x}

TheValue(o) == CHOOSE x \in o : TRUE

(* Iteration order of a std::unordered_map / std::unordered_set: some      *)
(* fixed order of the keys.                                                *)
RECURSIVE IterOrder(_)
IterOrder(S) ==
  IF S = {} THEN << >>
  ELSE LET k == CHOOSE e \in S : TRUE IN <<k>> \o IterOrder(S \ {k})

SeqToSet(s) == {s[i] : i \in DOMAIN s}

EmptyMap == [k \in {} |-> {}]

(* m[k] = v for a map kept as a function over its key set.                 *)
MapPut(m, k, v) == [x \in DOMAIN m \cup {k} |-> IF x = k THEN v ELSE m[x]]

MapErase(m, k) == [x \in DOMAIN m \ {k} |-> m[x]]

-----------------------------------------------------------------------------
(* Route data.                                                             *)

MyNodeName == "a"

createMplsAction(action, swapLabel, pushLabels) ==
  [action |-> action, swapLabel |-> swapLabel, pushLabels |-> pushLabels]

createNextHop(address, ifName, metric, mplsAction, useNonShortestRoute, area) ==
  [address |-> address, ifName |-> ifName, metric |-> metric,
   mplsAction |-> mplsAction, useNonShortestRoute |-> useNonShortestRoute,
   area |-> area, weight |-> 0]

(* A thrift::PrefixEntry default-constructed, as RibUnicastEntry holds it  *)
(* when no best entry was set.                                             *)
DefaultPrefixEntry ==
  [prefix |-> "", type |-> "LOOPBACK", data |-> "",
   forwardingType |-> "IP", forwardingAlgorithm |-> "SP_ECMP",
   mv |-> None, prependLabel |-> None, minNexthop |-> None]

RibUnicastEntry(prefix, nexthops, bestPrefixEntry, doNotInstall, bestNexthop) ==
  [prefix |-> prefix, nexthops |-> nexthops,
   bestPrefixEntry |-> bestPrefixEntry, doNotInstall |-> doNotInstall,
   bestNexthop |-> bestNexthop]

RibMplsEntry(label, nexthops) == [label |-> label, nexthops |-> nexthops]

EmptyRouteDb == [unicastEntries |-> EmptyMap, mplsEntries |-> EmptyMap]

(* RibUnicastEntry::toTUnicastRoute: the best prefix entry is carried only *)
(* as its data, and only when a best next-hop is set.                      *)
toTUnicastRoute(entry) ==
  [dest |-> entry.prefix,
   nextHops |-> entry.nexthops,
   doNotInstall |-> entry.doNotInstall,
   prefixType |-> IF entry.bestNexthop # None THEN Some("BGP") ELSE None,
   data |-> IF entry.bestNexthop # None
            THEN Some(entry.bestPrefixEntry.data) ELSE None,
   bestNexthop |-> entry.bestNexthop]

toTMplsRoute(entry) == [topLabel |-> entry.label, nextHops |-> entry.nexthops]

EmptyDelta ==
  [thisNodeName |-> "",
   unicastRoutesToUpdate |-> << >>, unicastRoutesToDelete |-> << >>,
   mplsRoutesToUpdate |-> << >>, mplsRoutesToDelete |-> << >>]

-----------------------------------------------------------------------------
(* getRouteDelta, loop by loop.                                            *)

RECURSIVE RoutesToUpdate(_, _, _)
RoutesToUpdate(keys, newEntries, oldEntries) ==
  IF keys = << >> THEN << >>
  ELSE LET key == Head(keys)
           entry == newEntries[key]
           rest == RoutesToUpdate(Tail(keys), newEntries, oldEntries)
       IN IF key \in DOMAIN oldEntries /\ oldEntries[key] = entry
          THEN rest
          ELSE <<entry>> \o rest

(* A delete loop that lists every key of the old database.                 *)
RoutesToDeleteEveryOldKey(keys, newEntries) == keys

RECURSIVE RoutesToDelete(_, _)
RoutesToDelete(keys, newEntries) ==
  IF keys = << >> THEN << >>
  ELSE LET key == Head(keys)
           rest == RoutesToDelete(Tail(keys), newEntries)
       IN IF Cardinality({key} \cap DOMAIN newEntries) = 0
          THEN <<key>> \o rest
          ELSE rest

(* A delta builder that takes two entries with the same next-hop set for   *)
(* equal.                                                                  *)
RECURSIVE RoutesToUpdateNexthopsOnly(_, _, _)
RoutesToUpdateNexthopsOnly(keys, newEntries, oldEntries) ==
  IF keys = << >> THEN << >>
  ELSE LET key == Head(keys)
           entry == newEntries[key]
           rest == RoutesToUpdateNexthopsOnly(Tail(keys), newEntries, oldEntries)
       IN IF key \in DOMAIN oldEntries
             /\ oldEntries[key].nexthops = entry.nexthops
          THEN rest
          ELSE <<entry>> \o rest

getRouteDeltaNexthopsOnly(newDb, oldDb) ==
  LET uni == RoutesToUpdateNexthopsOnly(IterOrder(DOMAIN newDb.unicastEntries),
                            newDb.unicastEntries, oldDb.unicastEntries)
      mpls == RoutesToUpdateNexthopsOnly(IterOrder(DOMAIN newDb.mplsEntries),
                            newDb.mplsEntries, oldDb.mplsEntries)
  IN [thisNodeName |-> "",
      unicastRoutesToUpdate |-> [i \in DOMAIN uni |-> toTUnicastRoute(uni[i])],
      unicastRoutesToDelete |->
        RoutesToDelete(IterOrder(DOMAIN oldDb.unicastEntries),
                       newDb.unicastEntries),
      mplsRoutesToUpdate |-> [i \in DOMAIN mpls |-> toTMplsRoute(mpls[i])],
      mplsRoutesToDelete |->
        RoutesToDelete(IterOrder(DOMAIN oldDb.mplsEntries), newDb.mplsEntries)]

getRouteDelta(newDb, oldDb) ==
  LET uni == RoutesToUpdate(IterOrder(DOMAIN newDb.unicastEntries),
                            newDb.unicastEntries, oldDb.unicastEntries)
      mpls == RoutesToUpdate(IterOrder(DOMAIN newDb.mplsEntries),
                             newDb.mplsEntries, oldDb.mplsEntries)
  IN [thisNodeName |-> "",
      unicastRoutesToUpdate |-> [i \in DOMAIN uni |-> toTUnicastRoute(uni[i])],
      unicastRoutesToDelete |->
        RoutesToDelete(IterOrder(DOMAIN oldDb.unicastEntries),
                       newDb.unicastEntries),
      mplsRoutesToUpdate |-> [i \in DOMAIN mpls |-> toTMplsRoute(mpls[i])],
      mplsRoutesToDelete |->
        RoutesToDelete(IterOrder(DOMAIN oldDb.mplsEntries), newDb.mplsEntries)]

(* DecisionRouteDb::toThrift, kept as maps keyed by destination / label.   *)
ThriftUnicast(db) ==
  [p \in DOMAIN db.unicastEntries |-> toTUnicastRoute(db.unicastEntries[p])]

ThriftMpls(db) ==
  [l \in DOMAIN db.mplsEntries |-> toTMplsRoute(db.mplsEntries[l])]

(* What a consumer of the route-updates queue does with a delta: remove    *)
(* the deleted keys, then insert or overwrite the updated routes.          *)
RECURSIVE EraseAll(_, _)
EraseAll(m, keys) ==
  IF keys = << >> THEN m ELSE EraseAll(MapErase(m, Head(keys)), Tail(keys))

RECURSIVE PutAllUnicast(_, _)
PutAllUnicast(m, routes) ==
  IF routes = << >> THEN m
  ELSE PutAllUnicast(MapPut(m, Head(routes).dest, Head(routes)), Tail(routes))

RECURSIVE PutAllMpls(_, _)
PutAllMpls(m, routes) ==
  IF routes = << >> THEN m
  ELSE PutAllMpls(MapPut(m, Head(routes).topLabel, Head(routes)), Tail(routes))

ApplyUnicastDelta(routes, delta) ==
  PutAllUnicast(EraseAll(routes, delta.unicastRoutesToDelete),
                delta.unicastRoutesToUpdate)

ApplyMplsDelta(routes, delta) ==
  PutAllMpls(EraseAll(routes, delta.mplsRoutesToDelete),
             delta.mplsRoutesToUpdate)

-----------------------------------------------------------------------------
(* Static MPLS routes of SpfSolverImpl.                                    *)

staticRoutesUpdated(updates) == Len(updates) > 0

pushRoutesDeltaUpdates(updates, staticRoutesDelta) ==
  Append(updates, staticRoutesDelta)

(* The squash loops of processStaticRouteUpdates: acc holds routesToUpdate *)
(* (label -> MplsRoute) and routesToDel (set of labels).                   *)
(* The squash without routesToDel.erase: an update does not cancel an      *)
(* earlier delete of its label.                                            *)
RECURSIVE SquashUpdatesKeepDel(_, _)
SquashUpdatesKeepDel(acc, routes) ==
  IF routes = << >> THEN acc
  ELSE LET r == Head(routes)
       IN SquashUpdatesKeepDel(
            [routesToUpdate |-> MapPut(acc.routesToUpdate, r.topLabel, r),
             routesToDel |-> acc.routesToDel],
            Tail(routes))

RECURSIVE SquashUpdates(_, _)
SquashUpdates(acc, routes) ==
  IF routes = << >> THEN acc
  ELSE LET r == Head(routes)
       IN SquashUpdates(
            [routesToUpdate |-> MapPut(acc.routesToUpdate, r.topLabel, r),
             routesToDel |-> acc.routesToDel \ {r.topLabel}],
            Tail(routes))

RECURSIVE SquashDeletes(_, _)
SquashDeletes(acc, labels) ==
  IF labels = << >> THEN acc
  ELSE LET l == Head(labels)
       IN SquashDeletes(
            [routesToUpdate |-> MapErase(acc.routesToUpdate, l),
             routesToDel |-> acc.routesToDel \cup {l}],
            Tail(labels))

RECURSIVE SquashAll(_, _)
SquashAll(acc, updates) ==
  IF updates = << >> THEN acc
  ELSE SquashAll(
         SquashDeletes(SquashUpdates(acc, Head(updates).mplsRoutesToUpdate),
                       Head(updates).mplsRoutesToDelete),
         Tail(updates))

RECURSIVE StoreStaticRoutes(_, _, _)
StoreStaticRoutes(table, labels, routesToUpdate) ==
  IF labels = << >> THEN table
  ELSE StoreStaticRoutes(
         MapPut(table, Head(labels), routesToUpdate[Head(labels)].nextHops),
         Tail(labels), routesToUpdate)

(* processStaticRouteUpdates without the return of no delta when the       *)
(* squash leaves nothing to update and nothing to delete.                  *)
processStaticRouteUpdatesAlwaysReturning(staticRoutes, updates) ==
  LET sq == SquashAll([routesToUpdate |-> EmptyMap, routesToDel |-> {}], updates)
      updLabels == IterOrder(DOMAIN sq.routesToUpdate)
      delLabels == IterOrder(sq.routesToDel)
  IN [staticRoutes |->
        EraseAll(StoreStaticRoutes(staticRoutes, updLabels, sq.routesToUpdate),
                 delLabels),
      updates |-> << >>,
      ret |-> Some([thisNodeName |-> MyNodeName,
                    unicastRoutesToUpdate |-> << >>,
                    unicastRoutesToDelete |-> << >>,
                    mplsRoutesToUpdate |->
                      [i \in DOMAIN updLabels |->
                         sq.routesToUpdate[updLabels[i]]],
                    mplsRoutesToDelete |-> delLabels])]

(* processStaticRouteUpdates: the new staticRoutes_, the emptied queue and *)
(* the returned optional delta.                                            *)
processStaticRouteUpdates(staticRoutes, updates) ==
  LET sq == SquashAll([routesToUpdate |-> EmptyMap, routesToDel |-> {}], updates)
      updLabels == IterOrder(DOMAIN sq.routesToUpdate)
      delLabels == IterOrder(sq.routesToDel)
  IN IF Cardinality(DOMAIN sq.routesToUpdate) = 0
        /\ Cardinality(sq.routesToDel) = 0
     THEN [staticRoutes |-> staticRoutes, updates |-> << >>, ret |-> None]
     ELSE [staticRoutes |->
             EraseAll(StoreStaticRoutes(staticRoutes, updLabels, sq.routesToUpdate),
                      delLabels),
           updates |-> << >>,
           ret |-> Some([thisNodeName |-> MyNodeName,
                         unicastRoutesToUpdate |-> << >>,
                         unicastRoutesToDelete |-> << >>,
                         mplsRoutesToUpdate |->
                           [i \in DOMAIN updLabels |->
                              sq.routesToUpdate[updLabels[i]]],
                         mplsRoutesToDelete |-> delLabels])]

-----------------------------------------------------------------------------
(* LinkState of one area: the adjacency databases and the ordered-FIB      *)
(* holds of its links.  A link exists when both ends advertise the         *)
(* adjacency over matching interfaces.                                     *)

Adjacency(otherNodeName, ifName, otherIfName, metric, adjLabel, nextHopV6) ==
  [otherNodeName |-> otherNodeName, ifName |-> ifName,
   otherIfName |-> otherIfName, metric |-> metric, adjLabel |-> adjLabel,
   isOverloaded |-> FALSE, nextHopV6 |-> nextHopV6,
   nextHopV4 |-> "v4:" \o otherNodeName]

AdjacencyDatabase(thisNodeName, adjacencies, nodeLabel, isOverloaded) ==
  [thisNodeName |-> thisNodeName, adjacencies |-> adjacencies,
   nodeLabel |-> nodeLabel, isOverloaded |-> isOverloaded,
   perfEvents |-> None]

SetMin(S) == CHOOSE x \in S : \A y \in S : x <= y

(* A local variable: Bind([x \in {e} |-> body]) is body with x bound to    *)
(* the value of e, computed once where the code computes it.               *)
Bind(f) == f[CHOOSE x \in DOMAIN f : TRUE]

SetMax(S) == CHOOSE x \in S : \A y \in S : x >= y

LinkId(n1, adj1) == {<<n1, adj1.ifName>>, <<adj1.otherNodeName, adj1.otherIfName>>}

(* The links the adjacency databases agree on, without their holds.        *)
MatchedLinks(area, adjDbs) ==
  {[id |-> LinkId(n1, a1),
    nodes |-> {n1, a1.otherNodeName},
    adj |-> [n \in {n1, a1.otherNodeName} |->
               IF n = n1 THEN a1
               ELSE CHOOSE a2 \in adjDbs[a1.otherNodeName].adjacencies :
                      /\ a2.otherNodeName = n1
                      /\ a2.ifName = a1.otherIfName
                      /\ a2.otherIfName = a1.ifName],
    area |-> area] :
     <<n1, a1>> \in
       {<<n, a>> \in UNION {{n} \X adjDbs[n].adjacencies : n \in DOMAIN adjDbs} :
          /\ a.otherNodeName \in DOMAIN adjDbs
          /\ a.otherNodeName # n
          /\ \E a2 \in adjDbs[a.otherNodeName].adjacencies :
               /\ a2.otherNodeName = n
               /\ a2.ifName = a.otherIfName
               /\ a2.otherIfName = a.ifName}}

(* The link set a LinkState keeps: the matched links with their hold-up   *)
(* TTL and the removed ones that are still held down.                      *)
AllLinks(area, adjDbs, holdUp, heldDown) ==
  {[id |-> l.id, nodes |-> l.nodes, adj |-> l.adj, area |-> l.area,
    holdUpTtl |-> IF l.id \in DOMAIN holdUp THEN holdUp[l.id] ELSE 0] :
     l \in MatchedLinks(area, adjDbs)}
  \cup {[id |-> h.link.id, nodes |-> h.link.nodes, adj |-> h.link.adj,
         area |-> h.link.area, holdUpTtl |-> 0] : h \in heldDown}

HoldUpTtl(ls, id) == IF id \in DOMAIN ls.holdUp THEN ls.holdUp[id] ELSE 0

Links(ls) == ls.links

getOtherNodeName(link, n) == CHOOSE m \in link.nodes : m # n

(* The effective metric of a link is the larger of its two directions.     *)
getMetricFromNode(link, n) ==
  SetMax({link.adj[m].metric : m \in link.nodes})

getAdjLabelFromNode(link, n) == link.adj[n].adjLabel

getIfaceFromNode(link, n) == link.adj[n].ifName

getNhV6FromNode(link, n) == link.adj[n].nextHopV6

getNhV4FromNode(link, n) == link.adj[n].nextHopV4

isUp(link) ==
  /\ link.holdUpTtl = 0
  /\ \A n \in link.nodes : ~link.adj[n].isOverloaded

linksFromNode(ls, n) == {l \in Links(ls) : n \in l.nodes}

hasNode(ls, n) == n \in DOMAIN ls.adjDbs

isNodeOverloaded(ls, n) == n \in DOMAIN ls.adjDbs /\ ls.adjDbs[n].isOverloaded

hasHolds(ls) == DOMAIN ls.holdUp # {} \/ ls.heldDown # {}

(* Dijkstra as rounds of relaxation: dist maps the nodes reached so far to *)
(* their metric.  Only links that are up are used and an overloaded node   *)
(* is not used for transit.  useLinkMetric FALSE counts hops.              *)
RelaxOnce(ls, src, dist, useLinkMetric) ==
  LET cands(v) ==
        {dist[getOtherNodeName(l, v)]
           + (IF useLinkMetric
              THEN getMetricFromNode(l, getOtherNodeName(l, v)) ELSE 1) :
           l \in {k \in linksFromNode(ls, v) :
                    /\ isUp(k)
                    /\ getOtherNodeName(k, v) \in DOMAIN dist
                    /\ \/ getOtherNodeName(k, v) = src
                       \/ ~isNodeOverloaded(ls, getOtherNodeName(k, v))}}
      reached == DOMAIN dist \cup
                   {v \in DOMAIN ls.adjDbs : cands(v) # {}}
  IN [v \in reached |->
        IF v \in DOMAIN dist
        THEN SetMin({dist[v]} \cup cands(v))
        ELSE SetMin(cands(v))]

RECURSIVE RelaxRounds(_, _, _, _, _)
RelaxRounds(ls, src, dist, useLinkMetric, rounds) ==
  IF rounds = 0 THEN dist
  ELSE RelaxRounds(ls, src, RelaxOnce(ls, src, dist, useLinkMetric),
                   useLinkMetric, rounds - 1)

SpfDistances(ls, src, useLinkMetric) ==
  RelaxRounds(ls, src, [v \in {src} |-> 0], useLinkMetric,
              Cardinality(DOMAIN ls.adjDbs))

(* The neighbours of src that start a shortest path to v.                  *)
RECURSIVE SpfNextHops(_, _, _, _)
SpfNextHops(ls, src, dist, v) ==
  IF v = src THEN {}
  ELSE UNION {LET u == getOtherNodeName(l, v)
              IN IF u = src THEN {v} ELSE SpfNextHops(ls, src, dist, u) :
                l \in {k \in linksFromNode(ls, v) :
                         /\ isUp(k)
                         /\ getOtherNodeName(k, v) \in DOMAIN dist
                         /\ \/ getOtherNodeName(k, v) = src
                            \/ ~isNodeOverloaded(ls, getOtherNodeName(k, v))
                         /\ dist[getOtherNodeName(k, v)]
                              + getMetricFromNode(k, getOtherNodeName(k, v))
                              = dist[v]}}

(* One SPF run from src: node -> (metric, nextHops).                       *)
runSpf(ls, src) ==
  Bind([dist \in {SpfDistances(ls, src, TRUE)} |->
          [v \in DOMAIN dist |->
             [metric |-> dist[v], nextHops |-> SpfNextHops(ls, src, dist, v)]]])

(* Simple paths from cur to dst over links that are up, as sequences of    *)
(* links; removed holds the ids of links taken out of the graph.           *)
RECURSIVE PathsFrom(_, _, _, _, _, _)
PathsFrom(ls, src, cur, dst, visited, removed) ==
  IF cur = dst THEN {<< >>}
  ELSE IF cur # src /\ isNodeOverloaded(ls, cur) THEN {}
  ELSE UNION {{<<l>> \o p :
                 p \in PathsFrom(ls, src, getOtherNodeName(l, cur), dst,
                                 visited \cup {getOtherNodeName(l, cur)},
                                 removed)} :
                l \in {k \in linksFromNode(ls, cur) :
                         /\ isUp(k)
                         /\ k.id \notin removed
                         /\ getOtherNodeName(k, cur) \notin visited}}

RECURSIVE PathCost(_, _)
PathCost(path, from) ==
  IF path = << >> THEN 0
  ELSE getMetricFromNode(Head(path), from)
         + PathCost(Tail(path), getOtherNodeName(Head(path), from))

ShortestPaths(ls, src, dst, removed) ==
  Bind([all \in {PathsFrom(ls, src, src, dst, {src}, removed)} |->
          {p \in all : \A q \in all : PathCost(p, src) <= PathCost(q, src)}])

(* The shortest paths for k = 1; for k = 2 the globally shortest of the    *)
(* paths found after removing, in turn, each edge of a shortest path.      *)
traceKthPaths(ls, src, dst, k) ==
  IF src = dst THEN {}
  ELSE
    Bind([first \in {ShortestPaths(ls, src, dst, {})} |->
      IF k = 1 THEN first
      ELSE Bind([cands \in
                   {UNION {UNION {ShortestPaths(ls, src, dst, {p[i].id}) :
                                    i \in 1..Len(p)} : p \in first}} |->
             {p \in cands :
                \A q \in cands : PathCost(p, src) <= PathCost(q, src)}])])

(* A LinkState memoises its SPF runs and its k-th paths until the graph    *)
(* changes; here they are computed when the graph is made, the k-th paths  *)
(* from this node only, the one source Decision asks about.                *)
Memoised(ls) ==
  [area |-> ls.area, adjDbs |-> ls.adjDbs, holdUp |-> ls.holdUp,
   heldDown |-> ls.heldDown, links |-> ls.links,
   spfResults |-> [src \in DOMAIN ls.adjDbs |-> runSpf(ls, src)],
   hopResults |-> [src \in DOMAIN ls.adjDbs |-> SpfDistances(ls, src, FALSE)],
   kthPathResults |->
     [q \in ({MyNodeName} \cap DOMAIN ls.adjDbs) \X (DOMAIN ls.adjDbs)
               \X {1, 2} |->
        traceKthPaths(ls, q[1], q[2], q[3])]]

LinkStateWith(area, adjDbs, holdUp, heldDown) ==
  Memoised([area |-> area, adjDbs |-> adjDbs, holdUp |-> holdUp,
            heldDown |-> heldDown,
            links |-> AllLinks(area, adjDbs, holdUp, heldDown)])

LinkStateOf(area) == LinkStateWith(area, EmptyMap, EmptyMap, {})

(* LinkState::getSpfResult: node -> (metric, nextHops).                    *)
getSpfResult(ls, src) ==
  IF src \in DOMAIN ls.spfResults THEN ls.spfResults[src]
  ELSE [v \in {src} |-> [metric |-> 0, nextHops |-> {}]]

getHopsFromAToB(ls, a, b) ==
  IF a = b THEN Some(0)
  ELSE IF a \in DOMAIN ls.hopResults /\ b \in DOMAIN ls.hopResults[a]
  THEN Some(ls.hopResults[a][b]) ELSE None

getMaxHopsToNode(ls, n) ==
  SetMax({0} \cup UNION {getHopsFromAToB(ls, m, n) : m \in DOMAIN ls.adjDbs})

getMetricFromAToB(ls, a, b) ==
  IF a = b THEN Some(0)
  ELSE IF b \in DOMAIN getSpfResult(ls, a)
  THEN Some(getSpfResult(ls, a)[b].metric) ELSE None

(* LinkState::getKthPaths.                                                 *)
getKthPaths(ls, src, dst, k) ==
  IF <<src, dst, k>> \in DOMAIN ls.kthPathResults
  THEN ls.kthPathResults[<<src, dst, k>>]
  ELSE traceKthPaths(ls, src, dst, k)

NoLinkStateChange ==
  [topologyChanged |-> FALSE, nodeLabelChanged |-> FALSE,
   linkAttributesChanged |-> FALSE]

RestrictMap(m, keys) == [k \in DOMAIN m \cap keys |-> m[k]]

(* LinkState::updateAdjacencyDatabase: replaces the node's database.  A    *)
(* link that appears is held up for holdUpTtl, a link that disappears      *)
(* stays usable for holdDownTtl.                                           *)
updateAdjacencyDatabase(ls, newDb, holdUpTtl, holdDownTtl) ==
  LET node == newDb.thisNodeName
      priorLabel == IF node \in DOMAIN ls.adjDbs
                    THEN ls.adjDbs[node].nodeLabel ELSE 0
      priorOverload == isNodeOverloaded(ls, node)
      newAdjDbs == MapPut(ls.adjDbs, node, newDb)
      matched == MatchedLinks(ls.area, newAdjDbs)
      heldIds == {h.link.id : h \in ls.heldDown}
      oldLinks == {l \in Links(ls) : node \in l.nodes /\ l.id \notin heldIds}
      newLinks == {l \in matched : node \in l.nodes}
      oldIds == {l.id : l \in oldLinks}
      newIds == {l.id : l \in newLinks}
      added == {l \in newLinks : l.id \notin oldIds}
      removed == {l \in oldLinks : l.id \notin newIds}
      kept == {l \in newLinks : l.id \in oldIds}
      oldOf(l) == CHOOSE o \in oldLinks : o.id = l.id
      linkUp(l) == \A n \in l.nodes : ~l.adj[n].isOverloaded
      wasUp(l) == HoldUpTtl(ls, l.id) = 0 /\ linkUp(l)
      allIds == {l.id : l \in matched}
      holdUp1 == RestrictMap(ls.holdUp, allIds \ {l.id : l \in added})
      holdUp2 == IF holdUpTtl > 0
                 THEN [id \in DOMAIN holdUp1 \cup {l.id : l \in added} |->
                         IF id \in DOMAIN holdUp1 THEN holdUp1[id]
                         ELSE holdUpTtl]
                 ELSE holdUp1
      stillHeld == {h \in ls.heldDown : h.link.id \notin newIds}
      heldDown2 == IF holdDownTtl > 0
                   THEN stillHeld \cup
                          {[link |-> l, ttl |-> holdDownTtl] :
                             l \in {r \in removed : wasUp(r)}}
                   ELSE stillHeld
  IN [ls |-> LinkStateWith(ls.area, newAdjDbs, holdUp2, heldDown2),
      change |->
        [topologyChanged |->
           \/ priorOverload # newDb.isOverloaded
           \/ \E l \in added : holdUpTtl = 0 /\ linkUp(l)
           \/ \E l \in removed : holdDownTtl = 0 /\ wasUp(l)
           \/ \E l \in kept :
                \/ getMetricFromNode(l, node) # getMetricFromNode(oldOf(l), node)
                \/ linkUp(l) # linkUp(oldOf(l)),
         nodeLabelChanged |-> priorLabel # newDb.nodeLabel,
         linkAttributesChanged |->
           \E l \in kept :
             \/ l.adj[node].adjLabel # oldOf(l).adj[node].adjLabel
             \/ l.adj[node].nextHopV6 # oldOf(l).adj[node].nextHopV6
             \/ l.adj[node].nextHopV4 # oldOf(l).adj[node].nextHopV4]]

(* LinkState::deleteAdjacencyDatabase: the node and its links go at once.  *)
deleteAdjacencyDatabase(ls, node) ==
  IF node \notin DOMAIN ls.adjDbs THEN [ls |-> ls, change |-> NoLinkStateChange]
  ELSE
    LET newAdjDbs == MapErase(ls.adjDbs, node)
        gone == {l \in Links(ls) : node \in l.nodes}
        allIds == {l.id : l \in MatchedLinks(ls.area, newAdjDbs)}
    IN [ls |-> LinkStateWith(ls.area, newAdjDbs,
                             RestrictMap(ls.holdUp, allIds),
                             {h \in ls.heldDown : node \notin h.link.nodes}),
        change |-> [topologyChanged |-> \E l \in gone : isUp(l),
                    nodeLabelChanged |-> FALSE,
                    linkAttributesChanged |-> FALSE]]

(* LinkState::decrementHolds: every TTL goes down by one; a hold that      *)
(* reaches zero brings its link up, or finally removes it.                 *)
decrementHolds(ls) ==
  LET expiredUp == {id \in DOMAIN ls.holdUp : ls.holdUp[id] <= 1}
      expiredDown == {h \in ls.heldDown : h.ttl <= 1}
      newLs == LinkStateWith(ls.area, ls.adjDbs,
                 [id \in DOMAIN ls.holdUp \ expiredUp |-> ls.holdUp[id] - 1],
                 {[link |-> h.link, ttl |-> h.ttl - 1] :
                    h \in ls.heldDown \ expiredDown})
  IN [ls |-> newLs,
      change |-> [topologyChanged |->
                    \/ \E l \in Links(newLs) : l.id \in expiredUp /\ isUp(l)
                    \/ expiredDown # {},
                  nodeLabelChanged |-> FALSE,
                  linkAttributesChanged |-> FALSE]]

-----------------------------------------------------------------------------
(* PrefixState: prefix -> (node -> PrefixEntry).                           *)

IpPrefix(addr, len, v4) == [addr |-> addr, len |-> len, v4 |-> v4]

PrefixEntry(prefix, type, forwardingType, forwardingAlgorithm, mv, prependLabel, minNexthop) ==
  [prefix |-> prefix, type |-> type, data |-> "",
   forwardingType |-> forwardingType,
   forwardingAlgorithm |-> forwardingAlgorithm,
   mv |-> mv, prependLabel |-> prependLabel, minNexthop |-> minNexthop]

PrefixDatabase(thisNodeName, prefixEntries, deletePrefix) ==
  [thisNodeName |-> thisNodeName, prefixEntries |-> prefixEntries,
   deletePrefix |-> deletePrefix, perfEvents |-> None]

(* The entries of a prefix database as a map, a later entry for the same   *)
(* prefix replacing an earlier one.                                        *)
RECURSIVE EntriesByPrefix(_, _)
EntriesByPrefix(acc, entries) ==
  IF entries = << >> THEN acc
  ELSE EntriesByPrefix(MapPut(acc, Head(entries).prefix, Head(entries)),
                       Tail(entries))

(* PrefixState::updatePrefixDatabase: the node's entries are replaced by   *)
(* those of the database; the change is the set of prefixes it touched.    *)
updatePrefixDatabase(prefixes, nodePrefixDb) ==
  LET node == nodePrefixDb.thisNodeName
      new == EntriesByPrefix(EmptyMap, nodePrefixDb.prefixEntries)
      old == {q \in DOMAIN prefixes : node \in DOMAIN prefixes[q]}
      nodesOf(q) ==
        LET others == IF q \in DOMAIN prefixes
                      THEN MapErase(prefixes[q], node) ELSE EmptyMap
        IN IF q \in DOMAIN new THEN MapPut(others, node, new[q]) ELSE others
      keep == {q \in DOMAIN prefixes \cup DOMAIN new : DOMAIN nodesOf(q) # {}}
  IN [prefixes |-> [q \in keep |-> nodesOf(q)],
      change |-> {q \in old \cup DOMAIN new :
                    \/ q \notin old
                    \/ q \notin DOMAIN new
                    \/ prefixes[q][node] # new[q]}]

isHostPrefix(prefix) == prefix.len = (IF prefix.v4 THEN 32 ELSE 128)

(* PrefixState::getLoopbackVias: one next-hop per node that advertises a   *)
(* host loopback address of the family.                                    *)
getLoopbackVias(prefixes, nodes, isV4, igpMetric) ==
  LET loopbacks(n) ==
        {q \in DOMAIN prefixes :
           /\ n \in DOMAIN prefixes[q]
           /\ prefixes[q][n].type = "LOOPBACK"
           /\ q.v4 = isV4
           /\ isHostPrefix(q)}
      metric == IF igpMetric = None THEN 0 ELSE TheValue(igpMetric)
  IN {createNextHop((CHOOSE q \in loopbacks(n) : TRUE).addr, None, metric,
                    None, FALSE, None) :
        n \in {m \in nodes : loopbacks(m) # {}}}

(* getPrefixForwardingType: SR_MPLS only when every advertiser says so.    *)
getPrefixForwardingType(nodePrefixes) ==
  IF \A n \in DOMAIN nodePrefixes : nodePrefixes[n].forwardingType = "SR_MPLS"
  THEN "SR_MPLS" ELSE "IP"

-----------------------------------------------------------------------------
(* MetricVectorUtils: a metric vector is a version and a sequence of       *)
(* entities sorted by decreasing priority.                                 *)

OPENR_IGP_COST == "OPENR_IGP_COST"

createMetricEntity(type, priority, op, isBestPathTieBreaker, metric) ==
  [type |-> type, priority |-> priority, op |-> op,
   isBestPathTieBreaker |-> isBestPathTieBreaker, metric |-> metric]

MetricVector(version, metrics) == [version |-> version, metrics |-> metrics]

getMetricEntityByType(mv, type) ==
  {mv.metrics[i] : i \in {j \in DOMAIN mv.metrics : mv.metrics[j].type = type}}

isDecisive(result) == result \in {"WINNER", "LOOSER", "ERROR"}

NegateResult(result) ==
  CASE result = "WINNER" -> "LOOSER"
    [] result = "LOOSER" -> "WINNER"
    [] result = "TIE_WINNER" -> "TIE_LOOSER"
    [] result = "TIE_LOOSER" -> "TIE_WINNER"
    [] OTHER -> result

maybeUpdate(target, update) ==
  IF isDecisive(update) \/ target = "TIE" THEN update ELSE target

RECURSIVE compareMetrics(_, _, _)
compareMetrics(l, r, tieBreaker) ==
  IF Len(l) # Len(r) THEN "ERROR"
  ELSE IF l = << >> THEN "TIE"
  ELSE IF Head(l) > Head(r)
       THEN (IF tieBreaker THEN "TIE_WINNER" ELSE "WINNER")
  ELSE IF Head(l) < Head(r)
       THEN (IF tieBreaker THEN "TIE_LOOSER" ELSE "LOOSER")
  ELSE compareMetrics(Tail(l), Tail(r), tieBreaker)

resultForLoner(entity) ==
  CASE entity.op = "WIN_IF_PRESENT" ->
         (IF entity.isBestPathTieBreaker THEN "TIE_WINNER" ELSE "WINNER")
    [] entity.op = "WIN_IF_NOT_PRESENT" ->
         (IF entity.isBestPathTieBreaker THEN "TIE_LOOSER" ELSE "LOOSER")
    [] OTHER -> "TIE"

(* Entities in decreasing priority.                                        *)
RECURSIVE sortMetricVector(_)
sortMetricVector(metrics) ==
  IF metrics = << >> THEN << >>
  ELSE LET i == CHOOSE k \in DOMAIN metrics :
                  \A j \in DOMAIN metrics :
                    metrics[k].priority >= metrics[j].priority
       IN <<metrics[i]>> \o
            sortMetricVector(SubSeq(metrics, 1, i - 1)
                               \o SubSeq(metrics, i + 1, Len(metrics)))

RECURSIVE CompareWalk(_, _, _)
CompareWalk(l, r, result) ==
  IF isDecisive(result) \/ (l = << >> /\ r = << >>) THEN result
  ELSE IF r = << >>
       THEN CompareWalk(Tail(l), r, maybeUpdate(result, resultForLoner(Head(l))))
  ELSE IF l = << >>
       THEN CompareWalk(l, Tail(r),
              maybeUpdate(result, NegateResult(resultForLoner(Head(r)))))
  ELSE IF Head(l).type = Head(r).type
       THEN CompareWalk(Tail(l), Tail(r),
              maybeUpdate(result,
                compareMetrics(Head(l).metric, Head(r).metric,
                               Head(l).isBestPathTieBreaker)))
  ELSE IF Head(l).priority > Head(r).priority
       THEN CompareWalk(Tail(l), r, maybeUpdate(result, resultForLoner(Head(l))))
  ELSE IF Head(l).priority < Head(r).priority
       THEN CompareWalk(l, Tail(r),
              maybeUpdate(result, NegateResult(resultForLoner(Head(r)))))
  ELSE "ERROR"

compareMetricVectors(l, r) ==
  IF l.version # r.version THEN "ERROR"
  ELSE CompareWalk(sortMetricVector(l.metrics), sortMetricVector(r.metrics),
                   "TIE")

-----------------------------------------------------------------------------
(* SpfSolverImpl.  flags holds the solver's construction arguments         *)
(* enableV4, computeLfaPaths, bgpDryRun and bgpUseIgpMetric.               *)

MetricMax == 2147483647

OPENR_IGP_COST_PRIORITY == 1000

isMplsLabelValid(label) == label >= 0 /\ label < 1048576

BestPathCalResult ==
  [success |-> FALSE, nodes |-> {}, bestNode |-> "", bestVector |-> None,
   bestIgpMetric |-> None]

(* maybeFilterDrainedNodes without the fall-back to the unfiltered set.    *)
maybeFilterDrainedNodesStrict(result, ls) ==
  [result EXCEPT !.nodes = {n \in result.nodes : ~isNodeOverloaded(ls, n)}]

maybeFilterDrainedNodes(result, ls) ==
  LET filtered == {n \in result.nodes : ~isNodeOverloaded(ls, n)}
  IN IF filtered = {} THEN result ELSE [result EXCEPT !.nodes = filtered]

(* The step of runBestPathSelectionBgp going on to the next advertiser     *)
(* after a TIE or an ERROR instead of returning.                           *)
BestPathStepGoingOn(flags, nodeName, prefixEntry, igpMetric, ret) ==
  Bind([ret1 \in
          {IF /\ flags.bgpUseIgpMetric
              /\ \/ ret.bestIgpMetric = None
                 \/ TheValue(ret.bestIgpMetric) > igpMetric
           THEN [ret EXCEPT !.bestIgpMetric = Some(igpMetric)]
           ELSE ret} |->
    Bind([metricVector \in
            {IF flags.bgpUseIgpMetric
             THEN [TheValue(prefixEntry.mv) EXCEPT !.metrics =
                     Append(@, createMetricEntity(
                                 OPENR_IGP_COST, OPENR_IGP_COST_PRIORITY,
                                 "WIN_IF_NOT_PRESENT", FALSE,
                                 <<(-1) * igpMetric>>))]
             ELSE TheValue(prefixEntry.mv)} |->
      Bind([result \in
              {IF ret1.bestVector # None
               THEN compareMetricVectors(metricVector,
                                         TheValue(ret1.bestVector))
               ELSE "WINNER"} |->
        [returned |-> FALSE,
         ret |->
           CASE result = "WINNER" ->
                  [ret1 EXCEPT !.nodes = {nodeName},
                               !.bestVector = Some(metricVector),
                               !.bestNode = nodeName]
             [] result = "TIE_WINNER" ->
                  [ret1 EXCEPT !.nodes = @ \cup {nodeName},
                               !.bestVector = Some(metricVector),
                               !.bestNode = nodeName]
             [] result = "TIE_LOOSER" ->
                  [ret1 EXCEPT !.nodes = @ \cup {nodeName}]
             [] OTHER -> ret1]])])])

(* One advertiser of the loop of runBestPathSelectionBgp: its vector, with *)
(* the IGP cost appended when bgpUseIgpMetric_, against the best so far;   *)
(* returned says that the function returns here.                           *)
BestPathStep(flags, nodeName, prefixEntry, igpMetric, ret) ==
  Bind([ret1 \in
          {IF /\ flags.bgpUseIgpMetric
              /\ \/ ret.bestIgpMetric = None
                 \/ TheValue(ret.bestIgpMetric) > igpMetric
           THEN [ret EXCEPT !.bestIgpMetric = Some(igpMetric)]
           ELSE ret} |->
    Bind([metricVector \in
            {IF flags.bgpUseIgpMetric
             THEN [TheValue(prefixEntry.mv) EXCEPT !.metrics =
                     Append(@, createMetricEntity(
                                 OPENR_IGP_COST, OPENR_IGP_COST_PRIORITY,
                                 "WIN_IF_NOT_PRESENT", FALSE,
                                 <<(-1) * igpMetric>>))]
             ELSE TheValue(prefixEntry.mv)} |->
      Bind([result \in
              {IF ret1.bestVector # None
               THEN compareMetricVectors(metricVector,
                                         TheValue(ret1.bestVector))
               ELSE "WINNER"} |->
        [returned |-> result \in {"TIE", "ERROR"},
         ret |->
           CASE result = "WINNER" ->
                  [ret1 EXCEPT !.nodes = {nodeName},
                               !.bestVector = Some(metricVector),
                               !.bestNode = nodeName]
             [] result = "TIE_WINNER" ->
                  [ret1 EXCEPT !.nodes = @ \cup {nodeName},
                               !.bestVector = Some(metricVector),
                               !.bestNode = nodeName]
             [] result = "TIE_LOOSER" ->
                  [ret1 EXCEPT !.nodes = @ \cup {nodeName}]
             [] OTHER -> ret1]])])])

(* The loop of runBestPathSelectionBgp over the advertisers in order; a    *)
(* TIE or an ERROR returns at once, without success.                       *)
RECURSIVE BestPathWalk(_, _, _, _, _)
BestPathWalk(flags, order, nodePrefixes, mySpfResult, ret) ==
  IF order = << >> THEN [ret EXCEPT !.success = TRUE]
  ELSE IF Head(order) \notin DOMAIN mySpfResult
  THEN BestPathWalk(flags, Tail(order), nodePrefixes, mySpfResult, ret)
  ELSE IF getMetricEntityByType(TheValue(nodePrefixes[Head(order)].mv),
                                OPENR_IGP_COST) # {}
  THEN BestPathWalk(flags, Tail(order), nodePrefixes, mySpfResult, ret)
  ELSE Bind([step \in
               {BestPathStep(flags, Head(order), nodePrefixes[Head(order)],
                             mySpfResult[Head(order)].metric, ret)} |->
         IF step.returned THEN step.ret
         ELSE BestPathWalk(flags, Tail(order), nodePrefixes, mySpfResult,
                           step.ret)])

(* runBestPathSelectionBgp comparing the advertisers' vectors as they are, *)
(* without the IGP cost.                                                   *)
runBestPathSelectionBgpWithoutIgp(flags, myNodeName, nodePrefixes, ls, order) ==
  BestPathWalk([flags EXCEPT !.bgpUseIgpMetric = FALSE], order, nodePrefixes,
               getSpfResult(ls, myNodeName), BestPathCalResult)

(* runBestPathSelectionBgp when the unordered_map nodePrefixes hands out   *)
(* its advertisers in the given order.                                     *)
runBestPathSelectionBgpVisiting(flags, myNodeName, nodePrefixes, ls, order) ==
  BestPathWalk(flags, order, nodePrefixes, getSpfResult(ls, myNodeName),
               BestPathCalResult)

runBestPathSelectionBgp(flags, myNodeName, nodePrefixes, ls) ==
  runBestPathSelectionBgpVisiting(flags, myNodeName, nodePrefixes, ls,
                                  IterOrder(DOMAIN nodePrefixes))

(* getBestAnnouncingNodes giving up on a prefix that more than one node    *)
(* advertises.                                                             *)
getBestAnnouncingNodesSingle(flags, myNodeName, nodePrefixes, hasBgp, useKsp2EdAlgo, ls) ==
  IF Cardinality(DOMAIN nodePrefixes) > 1 THEN BestPathCalResult
  ELSE IF myNodeName \in DOMAIN nodePrefixes THEN BestPathCalResult
  ELSE [BestPathCalResult EXCEPT !.nodes = DOMAIN nodePrefixes,
                                 !.success = TRUE]

(* getBestAnnouncingNodes without the exception for a node with a prepend  *)
(* label: a winning set that holds the node is given up.                   *)
getBestAnnouncingNodesSkippingSelf(flags, myNodeName, nodePrefixes, hasBgp, useKsp2EdAlgo, ls) ==
  IF /\ useKsp2EdAlgo
     /\ \E n \in DOMAIN nodePrefixes :
          nodePrefixes[n].forwardingType # "SR_MPLS"
  THEN BestPathCalResult
  ELSE IF ~hasBgp
  THEN IF myNodeName \in DOMAIN nodePrefixes
       THEN BestPathCalResult
       ELSE maybeFilterDrainedNodes(
              [BestPathCalResult EXCEPT !.nodes = DOMAIN nodePrefixes,
                                        !.success = TRUE], ls)
  ELSE
    Bind([bestPathCalRes \in
            {runBestPathSelectionBgp(flags, myNodeName, nodePrefixes, ls)} |->
      IF ~bestPathCalRes.success THEN BestPathCalResult
      ELSE IF myNodeName \in bestPathCalRes.nodes THEN BestPathCalResult
      ELSE maybeFilterDrainedNodes(bestPathCalRes, ls)])

(* getBestAnnouncingNodes going on with a winning set that holds the node  *)
(* and another one, whether the node's own entry has a prepend label or    *)
(* not.                                                                    *)
getBestAnnouncingNodesAnyLabel(flags, myNodeName, nodePrefixes, hasBgp, useKsp2EdAlgo, ls) ==
  IF /\ useKsp2EdAlgo
     /\ \E n \in DOMAIN nodePrefixes :
          nodePrefixes[n].forwardingType # "SR_MPLS"
  THEN BestPathCalResult
  ELSE IF ~hasBgp
  THEN IF myNodeName \in DOMAIN nodePrefixes
       THEN BestPathCalResult
       ELSE maybeFilterDrainedNodes(
              [BestPathCalResult EXCEPT !.nodes = DOMAIN nodePrefixes,
                                        !.success = TRUE], ls)
  ELSE
    Bind([bestPathCalRes \in
            {runBestPathSelectionBgp(flags, myNodeName, nodePrefixes, ls)} |->
      IF ~bestPathCalRes.success THEN BestPathCalResult
      ELSE IF ~useKsp2EdAlgo
      THEN IF myNodeName \in bestPathCalRes.nodes
           THEN BestPathCalResult
           ELSE maybeFilterDrainedNodes(bestPathCalRes, ls)
      ELSE IF \/ myNodeName \notin bestPathCalRes.nodes
              \/ Cardinality(bestPathCalRes.nodes) > 1
      THEN maybeFilterDrainedNodes(bestPathCalRes, ls)
      ELSE BestPathCalResult])

getBestAnnouncingNodes(flags, myNodeName, nodePrefixes, hasBgp, useKsp2EdAlgo, ls) ==
  IF /\ useKsp2EdAlgo
     /\ \E n \in DOMAIN nodePrefixes :
          nodePrefixes[n].forwardingType # "SR_MPLS"
  THEN BestPathCalResult
  ELSE IF ~hasBgp
  THEN IF myNodeName \in DOMAIN nodePrefixes
       THEN BestPathCalResult
       ELSE maybeFilterDrainedNodes(
              [BestPathCalResult EXCEPT !.nodes = DOMAIN nodePrefixes,
                                        !.success = TRUE], ls)
  ELSE
    Bind([bestPathCalRes \in
            {runBestPathSelectionBgp(flags, myNodeName, nodePrefixes, ls)} |->
      IF ~bestPathCalRes.success THEN BestPathCalResult
      ELSE IF ~useKsp2EdAlgo
      THEN IF myNodeName \in bestPathCalRes.nodes
           THEN BestPathCalResult
           ELSE maybeFilterDrainedNodes(bestPathCalRes, ls)
      ELSE IF \/ myNodeName \notin bestPathCalRes.nodes
              \/ /\ Cardinality(bestPathCalRes.nodes) > 1
                 /\ myNodeName \in DOMAIN nodePrefixes
                 /\ nodePrefixes[myNodeName].prependLabel # None
      THEN maybeFilterDrainedNodes(bestPathCalRes, ls)
      ELSE BestPathCalResult])

(* getMinNextHopThreshold returning the smallest threshold declared.       *)
getMinNextHopThresholdSmallest(nodes, nodePrefixes) ==
  LET thresholds == UNION {nodePrefixes[n].minNexthop :
                             n \in nodes.nodes \cap DOMAIN nodePrefixes}
  IN IF thresholds = {} THEN None ELSE Some(SetMin(thresholds))

getMinNextHopThreshold(nodes, nodePrefixes) ==
  LET thresholds == UNION {nodePrefixes[n].minNexthop :
                             n \in nodes.nodes \cap DOMAIN nodePrefixes}
  IN IF thresholds = {} THEN None ELSE Some(SetMax(thresholds))

(* getMinCostNodes keeping every destination reached, not only the nearest. *)
getMinCostNodesAll(spfResult, dstNodeNames) ==
  LET reached == dstNodeNames \cap DOMAIN spfResult
  IN [metric |-> IF reached = {} THEN MetricMax
                 ELSE SetMin({spfResult[n].metric : n \in reached}),
      nodes |-> reached]

getMinCostNodes(spfResult, dstNodeNames) ==
  LET reached == dstNodeNames \cap DOMAIN spfResult
      shortestMetric ==
        IF reached = {} THEN MetricMax
        ELSE SetMin({spfResult[n].metric : n \in reached})
  IN [metric |-> shortestMetric,
      nodes |-> {n \in reached : spfResult[n].metric = shortestMetric}]

(* getNextHopsWithMetric taking every neighbour with a route to a          *)
(* destination for an LFA next hop.                                        *)
getNextHopsWithMetricAnyNeighbor(flags, myNodeName, dstNodeNames, perDestination, ls) ==
  LET shortestPathsFromHere == getSpfResult(ls, myNodeName)
      minMetricNodes == getMinCostNodes(shortestPathsFromHere, dstNodeNames)
      shortestMetric == minMetricNodes.metric
      minCostNodes == minMetricNodes.nodes
      ref(d) == IF perDestination THEN d ELSE ""
      shortest ==
        UNION {{[key |-> <<nh, ref(d)>>,
                 dist |-> shortestMetric
                            - TheValue(getMetricFromAToB(ls, myNodeName, nh))] :
                  nh \in shortestPathsFromHere[d].nextHops} : d \in minCostNodes}
      lfa ==
        IF ~flags.computeLfaPaths THEN {}
        ELSE UNION {
               LET neighborName == getOtherNodeName(link, myNodeName)
                   fromNeighbor == getSpfResult(ls, neighborName)
               IN {[key |-> <<neighborName, ref(d)>>,
                    dist |-> fromNeighbor[d].metric] :
                     d \in dstNodeNames \cap DOMAIN fromNeighbor} :
               link \in {l \in linksFromNode(ls, myNodeName) : isUp(l)}}
      found == shortest \cup lfa
  IN [metric |-> shortestMetric,
      nextHopNodes |->
        IF minCostNodes = {} THEN EmptyMap
        ELSE [k \in {f.key : f \in found} |->
                SetMin({f.dist : f \in {g \in found : g.key = k}})]]

(* The pair (min metric, nextHopNodes); nextHopNodes maps (next-hop node,  *)
(* destination or "") to the distance from the next hop.                   *)
getNextHopsWithMetric(flags, myNodeName, dstNodeNames, perDestination, ls) ==
  LET shortestPathsFromHere == getSpfResult(ls, myNodeName)
      minMetricNodes == getMinCostNodes(shortestPathsFromHere, dstNodeNames)
      shortestMetric == minMetricNodes.metric
      minCostNodes == minMetricNodes.nodes
      ref(d) == IF perDestination THEN d ELSE ""
      shortest ==
        UNION {{[key |-> <<nh, ref(d)>>,
                 dist |-> shortestMetric
                            - TheValue(getMetricFromAToB(ls, myNodeName, nh))] :
                  nh \in shortestPathsFromHere[d].nextHops} : d \in minCostNodes}
      lfa ==
        IF ~flags.computeLfaPaths THEN {}
        ELSE UNION {
               LET neighborName == getOtherNodeName(link, myNodeName)
                   fromNeighbor == getSpfResult(ls, neighborName)
                   neighborToHere == fromNeighbor[myNodeName].metric
               IN {[key |-> <<neighborName, ref(d)>>,
                    dist |-> fromNeighbor[d].metric] :
                     d \in {e \in dstNodeNames \cap DOMAIN fromNeighbor :
                              fromNeighbor[e].metric
                                < shortestMetric + neighborToHere}} :
               link \in {l \in linksFromNode(ls, myNodeName) : isUp(l)}}
      found == shortest \cup lfa
  IN [metric |-> shortestMetric,
      nextHopNodes |->
        IF minCostNodes = {} THEN EmptyMap
        ELSE [k \in {f.key : f \in found} |->
                SetMin({f.dist : f \in {g \in found : g.key = k}})]]

getNextHopsThrift(flags, myNodeName, dstNodeNames, isV4, perDestination, minMetric, nextHopNodes, swapLabel, ls) ==
  LET dsts == IF perDestination THEN dstNodeNames ELSE {""}
      usable(link, dstNode) ==
        LET neighborNode == getOtherNodeName(link, myNodeName)
            key == <<neighborNode, dstNode>>
        IN /\ key \in DOMAIN nextHopNodes
           /\ isUp(link)
           /\ ~(dstNode # "" /\ neighborNode \in dstNodeNames
                /\ neighborNode # dstNode)
           /\ \/ flags.computeLfaPaths
              \/ getMetricFromNode(link, myNodeName) + nextHopNodes[key]
                   = minMetric
           /\ \/ dstNode = ""
              \/ dstNode = neighborNode
              \/ isMplsLabelValid(ls.adjDbs[dstNode].nodeLabel)
      mplsActionOf(link, dstNode) ==
        LET neighborNode == getOtherNodeName(link, myNodeName)
        IN IF dstNode # "" /\ dstNode # neighborNode
           THEN Some(createMplsAction("PUSH", None,
                       Some(<<ls.adjDbs[dstNode].nodeLabel>>)))
           ELSE IF swapLabel # None
           THEN IF neighborNode \in dstNodeNames
                THEN Some(createMplsAction("PHP", None, None))
                ELSE Some(createMplsAction("SWAP", swapLabel, None))
           ELSE None
  IN {createNextHop(
        IF isV4 THEN getNhV4FromNode(pair[1], myNodeName)
        ELSE getNhV6FromNode(pair[1], myNodeName),
        Some(getIfaceFromNode(pair[1], myNodeName)),
        getMetricFromNode(pair[1], myNodeName)
          + nextHopNodes[<<getOtherNodeName(pair[1], myNodeName), pair[2]>>],
        mplsActionOf(pair[1], pair[2]),
        FALSE,
        Some(pair[1].area)) :
       pair \in {q \in linksFromNode(ls, myNodeName) \X dsts :
                   usable(q[1], q[2])}}

(* The select* functions give the entry they emplace, or None.            *)
selectEcmpOpenr(flags, myNodeName, prefix, nodePrefixes, isV4, ls) ==
  Bind([ret \in {getBestAnnouncingNodes(flags, myNodeName, nodePrefixes,
                                        FALSE, FALSE, ls)} |->
    IF ~ret.success THEN None
    ELSE
      Bind([perDestination \in
              {getPrefixForwardingType(nodePrefixes) = "SR_MPLS"} |->
        Bind([metricNhs \in
                {getNextHopsWithMetric(flags, myNodeName, ret.nodes,
                                       perDestination, ls)} |->
          IF DOMAIN metricNhs.nextHopNodes = {} THEN None
          ELSE Some(RibUnicastEntry(
                      prefix,
                      getNextHopsThrift(flags, myNodeName, ret.nodes, isV4,
                                        perDestination, metricNhs.metric,
                                        metricNhs.nextHopNodes, None, ls),
                      DefaultPrefixEntry, FALSE, None))])])])

selectEcmpBgp(flags, myNodeName, prefix, nodePrefixes, isV4, ls, prefixes) ==
  Bind([dstInfo \in {getBestAnnouncingNodes(flags, myNodeName, nodePrefixes,
                                            TRUE, FALSE, ls)} |->
    IF ~dstInfo.success THEN None
    ELSE IF dstInfo.nodes = {} \/ myNodeName \in dstInfo.nodes THEN None
    ELSE
      Bind([bestNextHop \in
              {getLoopbackVias(prefixes, {dstInfo.bestNode}, isV4,
                               dstInfo.bestIgpMetric)} |->
        IF Cardinality(bestNextHop) # 1 THEN None
        ELSE
          Bind([nextHopsWithMetric \in
                  {getNextHopsWithMetric(flags, myNodeName, dstInfo.nodes,
                                         FALSE, ls)} |->
            Some(RibUnicastEntry(
                   prefix,
                   getNextHopsThrift(flags, myNodeName, dstInfo.nodes, isV4,
                                     FALSE, nextHopsWithMetric.metric,
                                     nextHopsWithMetric.nextHopNodes, None,
                                     ls),
                   nodePrefixes[dstInfo.bestNode],
                   flags.bgpDryRun,
                   Some(TheValue(bestNextHop))))])])])

(* LinkState::pathAInPathB: a occurs in b as a run of consecutive links.   *)
pathAInPathB(a, b) ==
  \E off \in 0..(Len(b) - Len(a)) : \A i \in 1..Len(a) : b[off + i] = a[i]

(* The node labels met along a path, first hop first.                      *)
RECURSIVE LabelsAlong(_, _, _)
LabelsAlong(ls, path, from) ==
  IF path = << >> THEN << >>
  ELSE LET next == getOtherNodeName(Head(path), from)
       IN <<ls.adjDbs[next].nodeLabel>> \o LabelsAlong(ls, Tail(path), next)

RECURSIVE PathEnd(_, _)
PathEnd(path, from) ==
  IF path = << >> THEN from
  ELSE PathEnd(Tail(path), getOtherNodeName(Head(path), from))

Reverse(seq) == [i \in 1..Len(seq) |-> seq[Len(seq) + 1 - i]]

(* selectKsp2 pushing the label of the first hop's neighbour as well.       *)
Ksp2NextHopKeepingFirstLabel(prefix, myNodeName, nodePrefixes, ls, path) ==
  createNextHop(
    IF prefix.v4 THEN getNhV4FromNode(Head(path), myNodeName)
    ELSE getNhV6FromNode(Head(path), myNodeName),
    Some(getIfaceFromNode(Head(path), myNodeName)),
    PathCost(path, myNodeName),
    Some(createMplsAction("PUSH", None,
                          Some(Reverse(LabelsAlong(ls, path, myNodeName))))),
    TRUE,
    Some(Head(path).area))

(* The next hop selectKsp2 makes of one path: the labels of the nodes      *)
(* after the first hop, the destination's prepend label at the bottom.     *)
Ksp2NextHop(prefix, myNodeName, nodePrefixes, ls, path) ==
  Bind([labels \in
          {IF nodePrefixes[PathEnd(path, myNodeName)].prependLabel # None
           THEN <<TheValue(nodePrefixes[PathEnd(path, myNodeName)].prependLabel)>>
                  \o Reverse(Tail(LabelsAlong(ls, path, myNodeName)))
           ELSE Reverse(Tail(LabelsAlong(ls, path, myNodeName)))} |->
    createNextHop(
      IF prefix.v4 THEN getNhV4FromNode(Head(path), myNodeName)
      ELSE getNhV6FromNode(Head(path), myNodeName),
      Some(getIfaceFromNode(Head(path), myNodeName)),
      PathCost(path, myNodeName),
      IF labels # << >>
      THEN Some(createMplsAction("PUSH", None, Some(labels))) ELSE None,
      TRUE,
      Some(Head(path).area))])

(* The next hops of the static MPLS route of this node's prepend label.    *)
Ksp2StaticNextHops(staticRoutes, label) ==
  IF label \in DOMAIN staticRoutes
  THEN [count |-> Len(staticRoutes[label]),
        nexthops |-> {createNextHop(nh.address, None, 0, None, TRUE, None) :
                        nh \in SeqToSet(staticRoutes[label])}]
  ELSE [count |-> 0, nexthops |-> {}]

(* The path loops of selectKsp2 without the pathAInPathB test.             *)
Ksp2PathsUnfiltered(myNodeName, bestPathCalResult, ls) ==
  [first |-> UNION {getKthPaths(ls, myNodeName, node, 1) :
                      node \in bestPathCalResult.nodes \ {myNodeName}},
   second |-> UNION {getKthPaths(ls, myNodeName, node, 2) :
                       node \in bestPathCalResult.nodes}]

(* The two path loops of selectKsp2: the shortest paths to every selected  *)
(* node but this one, and the second-shortest paths that hold none of      *)
(* them.                                                                   *)
Ksp2Paths(myNodeName, bestPathCalResult, ls) ==
  Bind([firstPaths \in
          {UNION {getKthPaths(ls, myNodeName, node, 1) :
                    node \in bestPathCalResult.nodes \ {myNodeName}}} |->
    [first |-> firstPaths,
     second |-> {sec \in UNION {getKthPaths(ls, myNodeName, node, 2) :
                                  node \in bestPathCalResult.nodes} :
                   \A first \in firstPaths : ~pathAInPathB(first, sec)}]])

selectKsp2(flags, staticRoutes, prefix, myNodeName, bestPathCalResult, nodePrefixes, hasBgp, ls, prefixes) ==
  Bind([kept \in {Ksp2Paths(myNodeName, bestPathCalResult, ls)} |->
    Bind([paths \in {kept.first \cup kept.second} |->
      IF paths = {} THEN None
      ELSE
        Bind([static \in
                {IF myNodeName \in bestPathCalResult.nodes
                 THEN Ksp2StaticNextHops(
                        staticRoutes,
                        TheValue(nodePrefixes[myNodeName].prependLabel))
                 ELSE [count |-> 0, nexthops |-> {}]} |->
          Bind([nexthops \in
                  {{Ksp2NextHop(prefix, myNodeName, nodePrefixes, ls, path) :
                      path \in paths} \cup static.nexthops} |->
            Bind([minNextHop \in
                    {getMinNextHopThreshold(bestPathCalResult,
                                            nodePrefixes)} |->
              IF /\ minNextHop # None
                 /\ TheValue(minNextHop) > Cardinality(nexthops) - static.count
              THEN None
              ELSE IF ~hasBgp
              THEN Some(RibUnicastEntry(prefix, nexthops, DefaultPrefixEntry,
                                        FALSE, None))
              ELSE
                Bind([bestNextHop \in
                        {getLoopbackVias(prefixes,
                                         {bestPathCalResult.bestNode},
                                         prefix.v4,
                                         bestPathCalResult.bestIgpMetric)} |->
                  IF Cardinality(bestNextHop) = 1
                  THEN Some(RibUnicastEntry(
                              prefix, nexthops,
                              nodePrefixes[bestPathCalResult.bestNode],
                              flags.bgpDryRun, Some(TheValue(bestNextHop))))
                  ELSE Some(RibUnicastEntry(prefix, nexthops,
                                            DefaultPrefixEntry, FALSE,
                                            None))])])])])])])

(* The unicast entry buildRouteDb makes for one prefix, or None.           *)
UnicastEntryFor(flags, staticRoutes, myNodeName, ls, prefixes, prefix) ==
  LET nodePrefixes == prefixes[prefix]
      advertisers == DOMAIN nodePrefixes
      hasBGP == \E n \in advertisers : nodePrefixes[n].type = "BGP"
      hasNonBGP == \E n \in advertisers : nodePrefixes[n].type # "BGP"
      missingMv == \E n \in advertisers :
                     nodePrefixes[n].type = "BGP" /\ nodePrefixes[n].mv = None
      hasSpEcmp == \E n \in advertisers :
                     nodePrefixes[n].forwardingAlgorithm = "SP_ECMP"
  IN IF hasBGP /\ (hasNonBGP \/ missingMv) THEN None
     ELSE IF myNodeName \in advertisers /\ ~hasBGP THEN None
     ELSE IF prefix.v4 /\ ~flags.enableV4 THEN None
     ELSE IF hasSpEcmp /\ hasBGP
     THEN selectEcmpBgp(flags, myNodeName, prefix, nodePrefixes, prefix.v4, ls,
                        prefixes)
     ELSE IF hasSpEcmp
     THEN selectEcmpOpenr(flags, myNodeName, prefix, nodePrefixes, prefix.v4, ls)
     ELSE
       Bind([nodes \in {getBestAnnouncingNodes(flags, myNodeName, nodePrefixes,
                                               hasBGP, TRUE, ls)} |->
         IF ~nodes.success \/ nodes.nodes = {} THEN None
         ELSE selectKsp2(flags, staticRoutes, prefix, myNodeName, nodes,
                         nodePrefixes, hasBGP, ls, prefixes)])

(* operator< of std::string on node names: the names in use, in          *)
(* lexicographic order.                                                    *)
NodeNamesInOrder == <<"a", "b", "c">>

StringLess(x, y) ==
  \E i, j \in DOMAIN NodeNamesInOrder :
    /\ NodeNamesInOrder[i] = x
    /\ NodeNamesInOrder[j] = y
    /\ i < j

(* What the node-label loop of buildRouteDb makes of one adjacency         *)
(* database: the entry it puts under the node's label, or None.            *)
NodeLabelEntry(flags, myNodeName, ls, adjDb, labelToNode) ==
  IF adjDb.nodeLabel = 0 THEN None
  ELSE IF ~isMplsLabelValid(adjDb.nodeLabel) THEN None
  ELSE IF /\ adjDb.nodeLabel \in DOMAIN labelToNode
          /\ StringLess(labelToNode[adjDb.nodeLabel].node, adjDb.thisNodeName)
  THEN None
  ELSE IF adjDb.thisNodeName = myNodeName
  THEN Some(RibMplsEntry(adjDb.nodeLabel,
              {createNextHop("::", None, 0,
                 Some(createMplsAction("POP_AND_LOOKUP", None, None)),
                 FALSE, None)}))
  ELSE
    Bind([metricNhs \in
            {getNextHopsWithMetric(flags, myNodeName, {adjDb.thisNodeName},
                                   FALSE, ls)} |->
      IF DOMAIN metricNhs.nextHopNodes = {} THEN None
      ELSE Some(RibMplsEntry(adjDb.nodeLabel,
                  getNextHopsThrift(flags, myNodeName, {adjDb.thisNodeName},
                                    FALSE, FALSE, metricNhs.metric,
                                    metricNhs.nextHopNodes,
                                    Some(adjDb.nodeLabel), ls)))])

(* The node-label loop of buildRouteDb over the adjacency databases in     *)
(* order; labelToNode maps a label to its node and entry.                  *)
RECURSIVE NodeLabelWalk(_, _, _, _, _)
NodeLabelWalk(flags, myNodeName, ls, order, labelToNode) ==
  IF order = << >> THEN labelToNode
  ELSE
    Bind([entry \in {NodeLabelEntry(flags, myNodeName, ls,
                                    ls.adjDbs[Head(order)], labelToNode)} |->
      NodeLabelWalk(flags, myNodeName, ls, Tail(order),
        IF entry = None THEN labelToNode
        ELSE MapPut(labelToNode, ls.adjDbs[Head(order)].nodeLabel,
                    [node |-> Head(order), entry |-> TheValue(entry)]))])

(* The adjacency-label loop without the test of the label's range.         *)
AdjLabelEntriesOfAnyRange(myNodeName, ls) ==
  Bind([adjLinks \in
          {{l \in linksFromNode(ls, myNodeName) :
              getAdjLabelFromNode(l, myNodeName) # 0}} |->
    [label \in {getAdjLabelFromNode(l, myNodeName) : l \in adjLinks} |->
       Bind([link \in {CHOOSE l \in adjLinks :
                         getAdjLabelFromNode(l, myNodeName) = label} |->
         RibMplsEntry(label,
           {createNextHop(getNhV6FromNode(link, myNodeName),
                          Some(getIfaceFromNode(link, myNodeName)),
                          getMetricFromNode(link, myNodeName),
                          Some(createMplsAction("PHP", None, None)),
                          FALSE, Some(link.area))})])]])

(* The adjacency-label loop of buildRouteDb: a PHP route per link of this  *)
(* node with a valid label; emplace keeps the first route of a label.      *)
AdjLabelEntries(myNodeName, ls) ==
  Bind([adjLinks \in
          {{l \in linksFromNode(ls, myNodeName) :
              /\ getAdjLabelFromNode(l, myNodeName) # 0
              /\ isMplsLabelValid(getAdjLabelFromNode(l, myNodeName))}} |->
    [label \in {getAdjLabelFromNode(l, myNodeName) : l \in adjLinks} |->
       Bind([link \in {CHOOSE l \in adjLinks :
                         getAdjLabelFromNode(l, myNodeName) = label} |->
         RibMplsEntry(label,
           {createNextHop(getNhV6FromNode(link, myNodeName),
                          Some(getIfaceFromNode(link, myNodeName)),
                          getMetricFromNode(link, myNodeName),
                          Some(createMplsAction("PHP", None, None)),
                          FALSE, Some(link.area))})])]])

(* SpfSolverImpl::buildRouteDb, the adjacency databases being visited in   *)
(* the given order.                                                        *)
SolverBuildRouteDbVisiting(flags, staticRoutes, myNodeName, ls, prefixes, order) ==
  IF ~hasNode(ls, myNodeName) THEN None
  ELSE
    Bind([made \in
            {[q \in DOMAIN prefixes |->
                UnicastEntryFor(flags, staticRoutes, myNodeName, ls,
                                prefixes, q)]} |->
      Bind([labelToNode \in
              {NodeLabelWalk(flags, myNodeName, ls, order, EmptyMap)} |->
        Bind([adjEntries \in {AdjLabelEntries(myNodeName, ls)} |->
          Some([unicastEntries |->
                  [q \in {r \in DOMAIN prefixes : made[r] # None} |->
                     TheValue(made[q])],
                mplsEntries |->
                  [label \in DOMAIN labelToNode \cup DOMAIN adjEntries |->
                     IF label \in DOMAIN labelToNode
                     THEN labelToNode[label].entry
                     ELSE adjEntries[label]]])])])])

SolverBuildRouteDb(flags, staticRoutes, myNodeName, ls, prefixes) ==
  SolverBuildRouteDbVisiting(flags, staticRoutes, myNodeName, ls, prefixes,
                             IterOrder(DOMAIN ls.adjDbs))

-----------------------------------------------------------------------------
(* RibPolicy: statements of a prefix matcher and a set-weight action.      *)

RibPolicyStatement(prefixes, defaultWeight, areaToWeight) ==
  [prefixes |-> prefixes, defaultWeight |-> defaultWeight,
   areaToWeight |-> areaToWeight]

(* The RibPolicy constructor throws on a policy without statements and on  *)
(* a statement that matches nothing.                                       *)
RibPolicyIsValid(policy) ==
  /\ policy.statements # << >>
  /\ \A i \in DOMAIN policy.statements : policy.statements[i].prefixes # {}

StatementApplyAction(statement, entry) ==
  LET weightOf(nh) ==
        IF nh.area # None /\ TheValue(nh.area) \in DOMAIN statement.areaToWeight
        THEN statement.areaToWeight[TheValue(nh.area)]
        ELSE statement.defaultWeight
  IN [entry EXCEPT !.nexthops =
        {[nh EXCEPT !.weight = weightOf(nh)] :
           nh \in {h \in entry.nexthops : weightOf(h) > 0}}]

(* RibPolicy::applyAction: the first statement that matches transforms.    *)
RECURSIVE applyAction(_, _)
applyAction(statements, entry) ==
  IF statements = << >> THEN entry
  ELSE IF entry.prefix \in Head(statements).prefixes
  THEN StatementApplyAction(Head(statements), entry)
  ELSE applyAction(Tail(statements), entry)

(* The policy loop that transforms the entries but keeps those left        *)
(* without next hops.                                                      *)
applyRibPolicyKeepEmpty(ribPolicy, routeDb) ==
  IF ribPolicy = None \/ ~TheValue(ribPolicy).active THEN routeDb
  ELSE [unicastEntries |->
          [q \in DOMAIN routeDb.unicastEntries |->
             applyAction(TheValue(ribPolicy).policy.statements,
                         routeDb.unicastEntries[q])],
        mplsEntries |-> routeDb.mplsEntries]

(* The policy loop of sendRouteUpdate: transform, then drop the entries    *)
(* left without next hops.                                                 *)
applyRibPolicy(ribPolicy, routeDb) ==
  IF ribPolicy = None \/ ~TheValue(ribPolicy).active THEN routeDb
  ELSE
    LET transformed ==
          [q \in DOMAIN routeDb.unicastEntries |->
             applyAction(TheValue(ribPolicy).policy.statements,
                         routeDb.unicastEntries[q])]
    IN [unicastEntries |->
          [q \in {r \in DOMAIN transformed : transformed[r].nexthops # {}} |->
             transformed[q]],
        mplsEntries |-> routeDb.mplsEntries]

-----------------------------------------------------------------------------
(* ExponentialBackoff of the debounce timer.                               *)

debounceMinDur == 2

debounceMaxDur == 4

atMaxBackoff(currentBackoff) == currentBackoff >= debounceMaxDur

reportError(currentBackoff) ==
  IF currentBackoff = 0 THEN debounceMinDur
  ELSE IF 2 * currentBackoff > debounceMaxDur THEN debounceMaxDur
  ELSE 2 * currentBackoff

reportSuccess(currentBackoff) == 0

(* Asked right after reportError, the whole backoff remains.               *)
getTimeRemainingUntilRetry(currentBackoff) == currentBackoff

-----------------------------------------------------------------------------
(* Decision.  The handlers are functions of the object's state, a record   *)
(* with one field per member variable.                                     *)

kDefaultArea == "0"

Publication(area, keyVals, expiredKeys) ==
  [area |-> area, keyVals |-> keyVals, expiredKeys |-> expiredKeys]

(* A KvStore key "<marker><node>[:<prefix key>]", already split.           *)
KvKey(marker, node, prefixKey) ==
  [marker |-> marker, node |-> node, prefixKey |-> prefixKey]

getNodeNameFromKey(key) == key.node

(* std::unordered_map::insert of a range: a key already there stays.       *)
InsertAll(into, from) ==
  [k \in DOMAIN into \cup DOMAIN from |->
     IF k \in DOMAIN into THEN into[k] ELSE from[k]]

(* The loop of Decision::buildRouteDb over the areas.                      *)
RECURSIVE MergeAreaDbs(_, _, _)
MergeAreaDbs(d, areas, db) ==
  IF areas = << >> THEN db
  ELSE
    Bind([maybeAreaDb \in
            {SolverBuildRouteDb(d.config_.flags, d.staticRoutes_, MyNodeName,
                                d.areaLinkStates_[Head(areas)],
                                d.prefixState_)} |->
      MergeAreaDbs(d, Tail(areas),
        IF maybeAreaDb = None THEN db
        ELSE [unicastEntries |->
                InsertAll(db.unicastEntries,
                          TheValue(maybeAreaDb).unicastEntries),
              mplsEntries |->
                InsertAll(db.mplsEntries,
                          TheValue(maybeAreaDb).mplsEntries)])])

(* Decision::buildRouteDb: None when nothing was built.                    *)
buildRouteDb(d) ==
  Bind([db \in {MergeAreaDbs(d, IterOrder(DOMAIN d.areaLinkStates_),
                             EmptyRouteDb)} |->
    IF DOMAIN db.unicastEntries = {} /\ DOMAIN db.mplsEntries = {}
    THEN None ELSE Some(db)])

(* The two kinds of element of routeUpdatesQueue_.  sendRouteUpdate sets    *)
(* the perfEvents field of the delta it pushes (their content is not kept  *)
(* here); the delta of processStaticRouteUpdates is pushed as returned,    *)
(* the field unset.  A static route lists its next hops and a computed one *)
(* has a set of them: with records of different fields the two kinds are   *)
(* told apart before TLC compares a list with a set.                       *)
RouteDeltaPush(delta) == [kind |-> "route", delta |-> delta, perfEvents |-> "set"]

StaticDeltaPush(delta) == [kind |-> "static", delta |-> delta]

(* Decision::sendRouteUpdate.                                              *)
sendRouteUpdate(d, routeDb) ==
  Bind([policed \in {applyRibPolicy(d.ribPolicy_, routeDb)} |->
    [d EXCEPT
       !.routeDb_ = policed,
       !.routeUpdatesQueue_ =
         Append(@, RouteDeltaPush(
                     [getRouteDelta(policed, d.routeDb_) EXCEPT
                        !.thisNodeName = MyNodeName]))]])

(* updateNodePrefixDatabase merging with the full database first: the     *)
(* entry of a per-prefix key is left out where the full database has the   *)
(* prefix.                                                                 *)
updateNodePrefixDatabaseFullDbFirst(d, key, prefixDb) ==
  LET nodeName == prefixDb.thisNodeName
      perPrefix0 == IF nodeName \in DOMAIN d.perPrefixPrefixEntries_
                    THEN d.perPrefixPrefixEntries_[nodeName] ELSE EmptyMap
      fullDb0 == IF nodeName \in DOMAIN d.fullDbPrefixEntries_
                 THEN d.fullDbPrefixEntries_[nodeName] ELSE EmptyMap
      perPrefix ==
        IF key.prefixKey = None THEN perPrefix0
        ELSE IF prefixDb.deletePrefix
        THEN MapErase(perPrefix0, TheValue(key.prefixKey))
        ELSE IF prefixDb.prefixEntries = << >> THEN perPrefix0
        ELSE MapPut(perPrefix0, TheValue(key.prefixKey),
                    Head(prefixDb.prefixEntries))
      fullDb ==
        IF key.prefixKey = None
        THEN EntriesByPrefix(EmptyMap, prefixDb.prefixEntries)
        ELSE fullDb0
      fromFullDb == IterOrder(DOMAIN fullDb)
      fromPerPrefix == IterOrder(DOMAIN perPrefix \ DOMAIN fullDb)
  IN [d |-> [d EXCEPT
               !.perPrefixPrefixEntries_ = MapPut(@, nodeName, perPrefix),
               !.fullDbPrefixEntries_ = MapPut(@, nodeName, fullDb)],
      nodePrefixDb |->
        [PrefixDatabase(nodeName,
           [i \in DOMAIN fromFullDb |-> fullDb[fromFullDb[i]]]
             \o [i \in DOMAIN fromPerPrefix |-> perPrefix[fromPerPrefix[i]]],
           FALSE)
           EXCEPT !.perfEvents = prefixDb.perfEvents]]

(* Decision::updateNodePrefixDatabase: the two stores of the node and the  *)
(* database merged from them.                                              *)
updateNodePrefixDatabase(d, key, prefixDb) ==
  LET nodeName == prefixDb.thisNodeName
      perPrefix0 == IF nodeName \in DOMAIN d.perPrefixPrefixEntries_
                    THEN d.perPrefixPrefixEntries_[nodeName] ELSE EmptyMap
      fullDb0 == IF nodeName \in DOMAIN d.fullDbPrefixEntries_
                 THEN d.fullDbPrefixEntries_[nodeName] ELSE EmptyMap
      perPrefix ==
        IF key.prefixKey = None THEN perPrefix0
        ELSE IF prefixDb.deletePrefix
        THEN MapErase(perPrefix0, TheValue(key.prefixKey))
        ELSE IF prefixDb.prefixEntries = << >> THEN perPrefix0
        ELSE MapPut(perPrefix0, TheValue(key.prefixKey),
                    Head(prefixDb.prefixEntries))
      fullDb ==
        IF key.prefixKey = None
        THEN EntriesByPrefix(EmptyMap, prefixDb.prefixEntries)
        ELSE fullDb0
      fromPerPrefix == IterOrder(DOMAIN perPrefix)
      fromFullDb == IterOrder(DOMAIN fullDb \ DOMAIN perPrefix)
  IN [d |-> [d EXCEPT
               !.perPrefixPrefixEntries_ = MapPut(@, nodeName, perPrefix),
               !.fullDbPrefixEntries_ = MapPut(@, nodeName, fullDb)],
      nodePrefixDb |->
        [PrefixDatabase(nodeName,
           [i \in DOMAIN fromPerPrefix |-> perPrefix[fromPerPrefix[i]]]
             \o [i \in DOMAIN fromFullDb |-> fullDb[fromFullDb[i]]],
           FALSE)
           EXCEPT !.perfEvents = prefixDb.perfEvents]]

(* PendingUpdates::applyLinkStateChange and applyPrefixStateChange.        *)
applyLinkStateChange(needsRouteUpdate, nodeName, change) ==
  \/ needsRouteUpdate
  \/ change.topologyChanged
  \/ change.nodeLabelChanged
  \/ (change.linkAttributesChanged /\ nodeName = MyNodeName)

applyPrefixStateChange(needsRouteUpdate, change) ==
  needsRouteUpdate \/ change # {}

(* The optional perfEvents processPublication hands to PendingUpdates     *)
(* with a change.  With the change of an adjacency database they are the  *)
(* third argument of applyLinkStateChange.  The call of                   *)
(* applyPrefixStateChange is closed after its first argument: the         *)
(* perfEvents of the merged database are the right operand of a comma     *)
(* operator that follows the call, evaluated and dropped, and the         *)
(* parameter keeps its default.                                           *)
perfEventsWithLinkStateChange(adjacencyDb) == adjacencyDb.perfEvents

perfEventsWithPrefixStateChange(nodePrefixDb) == None

(* An adjacency database of a publication: the holds are asked for only    *)
(* under ordered FIB programming and when the node is reachable.           *)
ProcessAdjacencyDb(d, area, nodeName, adjacencyDb) ==
  Bind([hops \in
          {IF d.config_.enable_ordered_fib_programming
           THEN getHopsFromAToB(d.areaLinkStates_[area], MyNodeName, nodeName)
           ELSE None} |->
    Bind([holdUpTtl \in {IF hops # None THEN TheValue(hops) ELSE 0} |->
      Bind([adjUpdate \in
              {updateAdjacencyDatabase(
                 d.areaLinkStates_[area], adjacencyDb, holdUpTtl,
                 IF hops # None
                 THEN getMaxHopsToNode(d.areaLinkStates_[area], nodeName)
                        - holdUpTtl
                 ELSE 0)} |->
        [d EXCEPT
           !.areaLinkStates_ = MapPut(@, area, adjUpdate.ls),
           !.pendingUpdates_ =
             applyLinkStateChange(@, nodeName, adjUpdate.change),
           !.orderedFibTimer_ =
             \/ @
             \/ /\ hasHolds(adjUpdate.ls)
                /\ d.config_.enable_ordered_fib_programming]])])])

(* A prefix database of a publication or of an expired key.                *)
ProcessPrefixDb(d, key, prefixDb) ==
  Bind([merged \in {updateNodePrefixDatabase(d, key, prefixDb)} |->
    Bind([prefixUpdate \in
            {updatePrefixDatabase(d.prefixState_, merged.nodePrefixDb)} |->
      [merged.d EXCEPT
         !.prefixState_ = prefixUpdate.prefixes,
         !.pendingUpdates_ =
           applyPrefixStateChange(@, prefixUpdate.change)]])])

(* One key/value of a publication, as the first loop of processPublication *)
(* takes it.  A value is the kind of object its bytes deserialize to, with *)
(* the object; bytes that are not of the kind the key asks for make        *)
(* readThriftObjStr or stoll throw, and the catch goes on to the next key. *)
ProcessKeyVal(d, area, kv) ==
  IF kv.value = None THEN d
  ELSE IF kv.key.marker = "adj:"
  THEN IF TheValue(kv.value).kind # "AdjacencyDatabase" THEN d
       ELSE IF getNodeNameFromKey(kv.key) # TheValue(kv.value).db.thisNodeName
       THEN [d EXCEPT
               !.aborted = "CHECK_EQ(nodeName, adjacencyDb.thisNodeName)"]
       ELSE ProcessAdjacencyDb(d, area, getNodeNameFromKey(kv.key),
                               TheValue(kv.value).db)
  ELSE IF kv.key.marker = "prefix:"
  THEN IF TheValue(kv.value).kind # "PrefixDatabase" THEN d
       ELSE IF getNodeNameFromKey(kv.key) # TheValue(kv.value).db.thisNodeName
       THEN [d EXCEPT
               !.aborted = "CHECK_EQ(nodeName, prefixDb.thisNodeName)"]
       ELSE ProcessPrefixDb(d, kv.key, TheValue(kv.value).db)
  ELSE IF kv.key.marker = "fibtime:"
  THEN IF TheValue(kv.value).kind # "int64" THEN d
       ELSE [d EXCEPT
               !.fibTimes_ = MapPut(@, getNodeNameFromKey(kv.key),
                                    TheValue(kv.value).db)]
  ELSE d

(* One expired key, as the second loop takes it.                           *)
ProcessExpiredKey(d, area, key) ==
  IF key.marker = "adj:"
  THEN Bind([adjDelete \in
               {deleteAdjacencyDatabase(d.areaLinkStates_[area],
                                        getNodeNameFromKey(key))} |->
         [d EXCEPT
            !.areaLinkStates_ = MapPut(@, area, adjDelete.ls),
            !.pendingUpdates_ =
              applyLinkStateChange(@, getNodeNameFromKey(key),
                                   adjDelete.change)]])
  ELSE IF key.marker = "prefix:"
  THEN ProcessPrefixDb(d, key,
         PrefixDatabase(getNodeNameFromKey(key), << >>, TRUE))
  ELSE d

(* The first loop with the try around it instead of inside it: the first   *)
(* value that does not deserialize ends the loop.                          *)
RECURSIVE ProcessKeyValsUntilError(_, _, _)
ProcessKeyValsUntilError(d, area, keyVals) ==
  IF keyVals = << >> \/ d.aborted # "" THEN d
  ELSE IF /\ Head(keyVals).value # None
          /\ TheValue(Head(keyVals).value).kind = "malformed"
  THEN d
  ELSE ProcessKeyValsUntilError(ProcessKeyVal(d, area, Head(keyVals)), area,
                                Tail(keyVals))

RECURSIVE ProcessKeyVals(_, _, _)
ProcessKeyVals(d, area, keyVals) ==
  IF keyVals = << >> \/ d.aborted # "" THEN d
  ELSE ProcessKeyVals(ProcessKeyVal(d, area, Head(keyVals)), area,
                      Tail(keyVals))

RECURSIVE ProcessExpiredKeys(_, _, _)
ProcessExpiredKeys(d, area, keys) ==
  IF keys = << >> \/ d.aborted # "" THEN d
  ELSE ProcessExpiredKeys(ProcessExpiredKey(d, area, Head(keys)), area,
                          Tail(keys))

(* Decision::processPublication.                                           *)
processPublication(d, thriftPub) ==
  Bind([area \in {IF thriftPub.area # None THEN TheValue(thriftPub.area)
                  ELSE kDefaultArea} |->
    Bind([d1 \in
            {IF area \in DOMAIN d.areaLinkStates_ THEN d
             ELSE [d EXCEPT
                     !.areaLinkStates_ = MapPut(@, area, LinkStateOf(area))]} |->
      IF thriftPub.keyVals = << >> /\ thriftPub.expiredKeys = << >> THEN d1
      ELSE ProcessExpiredKeys(ProcessKeyVals(d1, area, thriftPub.keyVals),
                              area, thriftPub.expiredKeys)])])

(* The debounce step both reader fibers take: back off and reschedule     *)
(* unless the backoff is at its maximum.                                   *)
ScheduleProcessUpdates(d) ==
  IF ~atMaxBackoff(d.processUpdatesBackoff_)
  THEN [d EXCEPT
          !.processUpdatesBackoff_ = reportError(@),
          !.processUpdatesTimer_ =
            Some(getTimeRemainingUntilRetry(
                   reportError(d.processUpdatesBackoff_)))]
  ELSE d

(* A notification joins the burst that waits for the debounce timer.       *)
NoteNotification(d) ==
  IF d.coldStartTimer_ THEN d
  ELSE [d EXCEPT !.burst =
          IF @ = None THEN Some([age |-> 0, last |-> 0])
          ELSE Some([age |-> TheValue(@).age, last |-> TheValue(@).age])]

(* One turn of the KvStore reader fiber.                                   *)
KvStoreUpdatesFiber(d, thriftPub) ==
  Bind([d1 \in {processPublication(d, thriftPub)} |->
    IF d1.aborted # "" THEN d1
    ELSE IF ~d1.pendingUpdates_ THEN d1
    ELSE
      Bind([d2 \in {ScheduleProcessUpdates(d1)} |->
        IF d2.processUpdatesTimer_ = None
        THEN [d2 EXCEPT
                !.aborted = "CHECK(processUpdatesTimer_->isScheduled())"]
        ELSE NoteNotification(d2)])])

(* One turn of the static-routes reader fiber.                             *)
StaticRoutesUpdateFiber(d, staticRoutesDelta) ==
  Bind([d1 \in
          {[d EXCEPT !.staticRoutesUpdates_ =
              pushRoutesDeltaUpdates(@, staticRoutesDelta)]} |->
    IF ~atMaxBackoff(d1.processUpdatesBackoff_)
    THEN NoteNotification(ScheduleProcessUpdates(d1))
    ELSE IF d1.processUpdatesTimer_ = None
    THEN [d1 EXCEPT
            !.aborted = "CHECK(processUpdatesTimer_->isScheduled())"]
    ELSE NoteNotification(d1)])

(* The static-route part of processPendingUpdates.                         *)
ProcessPendingStatic(d) ==
  IF ~staticRoutesUpdated(d.staticRoutesUpdates_) THEN d
  ELSE
    Bind([static \in {processStaticRouteUpdates(d.staticRoutes_,
                                                d.staticRoutesUpdates_)} |->
      [d EXCEPT
         !.staticRoutes_ = static.staticRoutes,
         !.staticRoutesUpdates_ = static.updates,
         !.routeUpdatesQueue_ =
           IF static.ret # None
           THEN Append(@, StaticDeltaPush(TheValue(static.ret)))
           ELSE @]])

(* Build the routes and, if there are any, send the update.                *)
BuildAndSend(d) ==
  Bind([maybeRouteDb \in {buildRouteDb(d)} |->
    IF maybeRouteDb # None THEN sendRouteUpdate(d, TheValue(maybeRouteDb))
    ELSE d])

(* processPendingUpdates without the return during cold start.              *)
processPendingUpdatesInColdStart(d) ==
  Bind([d2 \in
          {IF d.pendingUpdates_ \/ staticRoutesUpdated(d.staticRoutesUpdates_)
           THEN BuildAndSend(ProcessPendingStatic(d))
           ELSE ProcessPendingStatic(d)} |->
    [d2 EXCEPT !.pendingUpdates_ = FALSE,
               !.processUpdatesBackoff_ = reportSuccess(@),
               !.processUpdatesTimer_ = None,
               !.burst = None]])

(* processPendingUpdates that rebuilds the routes before it drains the     *)
(* static-route deltas.                                                    *)
processPendingUpdatesStaticLast(d) ==
  IF d.coldStartTimer_ THEN d
  ELSE
    Bind([d2 \in
            {IF d.pendingUpdates_ \/ staticRoutesUpdated(d.staticRoutesUpdates_)
             THEN ProcessPendingStatic(BuildAndSend(d))
             ELSE ProcessPendingStatic(d)} |->
      [d2 EXCEPT !.pendingUpdates_ = FALSE,
                 !.processUpdatesBackoff_ = reportSuccess(@),
                 !.processUpdatesTimer_ = None,
                 !.burst = None]])

(* processPendingUpdates without the reportSuccess at its end.             *)
processPendingUpdatesKeepingBackoff(d) ==
  IF d.coldStartTimer_ THEN d
  ELSE
    Bind([d2 \in
            {IF d.pendingUpdates_ \/ staticRoutesUpdated(d.staticRoutesUpdates_)
             THEN BuildAndSend(ProcessPendingStatic(d))
             ELSE ProcessPendingStatic(d)} |->
      [d2 EXCEPT !.pendingUpdates_ = FALSE,
                 !.processUpdatesTimer_ = None,
                 !.burst = None]])

(* Decision::processPendingUpdates, run by the debounce timer.             *)
processPendingUpdates(d) ==
  IF d.coldStartTimer_ THEN d
  ELSE
    Bind([d2 \in
            {IF d.pendingUpdates_ \/ staticRoutesUpdated(d.staticRoutesUpdates_)
             THEN BuildAndSend(ProcessPendingStatic(d))
             ELSE ProcessPendingStatic(d)} |->
      [d2 EXCEPT !.pendingUpdates_ = FALSE,
                 !.processUpdatesBackoff_ = reportSuccess(@),
                 !.processUpdatesTimer_ = None,
                 !.burst = None]])

(* The debounce timer callback: the timer has fired, so it is no longer    *)
(* scheduled when processPendingUpdates runs.                              *)
ProcessUpdatesTimerCallback(d) ==
  processPendingUpdates([d EXCEPT !.processUpdatesTimer_ = None])

(* Decision::processRibPolicyUpdate.                                       *)
processRibPolicyUpdate(d) ==
  IF d.coldStartTimer_ THEN d ELSE BuildAndSend(d)

(* Every area's holds go down by one.                                      *)
DecrementAllHolds(areaLinkStates) ==
  [area \in DOMAIN areaLinkStates |-> decrementHolds(areaLinkStates[area])]

(* Decision::decrementOrderedFibHolds and the timer callback around it,    *)
(* which reschedules the timer while holds remain.                         *)
decrementOrderedFibHolds(d) ==
  Bind([stepped \in {DecrementAllHolds(d.areaLinkStates_)} |->
    Bind([d1 \in
            {[d EXCEPT
                !.areaLinkStates_ =
                  [area \in DOMAIN stepped |-> stepped[area].ls],
                !.orderedFibTimer_ =
                  \E area \in DOMAIN stepped : hasHolds(stepped[area].ls)]} |->
      IF /\ \E area \in DOMAIN stepped : stepped[area].change.topologyChanged
         /\ ~d.coldStartTimer_
      THEN BuildAndSend(d1)
      ELSE d1])])

(* What a route database moved out of an empty std::optional may hold.     *)
IndeterminateRouteDbs ==
  {EmptyRouteDb,
   [unicastEntries |-> EmptyMap,
    mplsEntries |-> [l \in {1} |-> RibMplsEntry(1, {})]]}

(* Decision::coldStartUpdate.  Without routes it dereferences the empty    *)
(* optional: the process dies there (found = None) or goes on with         *)
(* whatever database the storage is found to hold.                         *)
coldStartUpdate(d, found) ==
  Bind([d1 \in {[d EXCEPT !.coldStartTimer_ = FALSE]} |->
    Bind([maybeRouteDb \in {buildRouteDb(d1)} |->
      IF maybeRouteDb = None /\ found = None
      THEN [d1 EXCEPT !.aborted = "*maybeRouteDb of an empty optional"]
      ELSE sendRouteUpdate(d1, IF maybeRouteDb # None
                               THEN TheValue(maybeRouteDb)
                               ELSE TheValue(found))])])

(* setRibPolicy without the staleness check.                               *)
setRibPolicyAnyTtl(d, ribPolicyThrift, durationLeft) ==
  IF ~d.config_.enable_rib_policy
  THEN [d |-> d, reply |-> "OpenrError: RibPolicy feature is not enabled"]
  ELSE IF ~RibPolicyIsValid(ribPolicyThrift)
  THEN [d |-> d, reply |-> "OpenrError: invalid policy"]
  ELSE [d |-> processRibPolicyUpdate(
                [d EXCEPT
                   !.ribPolicy_ = Some([policy |-> ribPolicyThrift,
                                        ttl |-> durationLeft,
                                        active |-> TRUE]),
                   !.ribPolicyTimer_ = TRUE]),
        reply |-> "done"]

(* Decision::setRibPolicy: the reply the caller's future gets and the      *)
(* state after the event-loop part has run; durationLeft is the TTL left   *)
(* when it runs.                                                           *)
setRibPolicy(d, ribPolicyThrift, durationLeft) ==
  IF ~d.config_.enable_rib_policy
  THEN [d |-> d, reply |-> "OpenrError: RibPolicy feature is not enabled"]
  ELSE IF ~RibPolicyIsValid(ribPolicyThrift)
  THEN [d |-> d, reply |-> "OpenrError: invalid policy"]
  ELSE IF durationLeft <= 0
  THEN [d |-> d, reply |-> "BrokenPromise"]
  ELSE [d |-> processRibPolicyUpdate(
                [d EXCEPT
                   !.ribPolicy_ = Some([policy |-> ribPolicyThrift,
                                        ttl |-> durationLeft,
                                        active |-> TRUE]),
                   !.ribPolicyTimer_ = TRUE]),
        reply |-> "done"]

(* The RibPolicy timer callback.                                           *)
RibPolicyTimerCallback(d) ==
  processRibPolicyUpdate([d EXCEPT !.ribPolicyTimer_ = FALSE])

-----------------------------------------------------------------------------
(* Inputs of the pure-function checks.                                     *)

NhB == createNextHop("fe80::b", Some("if_a_b"), 1, None, FALSE, Some("0"))

NhC == createNextHop("fe80::c", Some("if_a_c"), 1, None, FALSE, Some("0"))

NhLoopB == createNextHop("fc00::b", None, 1, None, FALSE, None)

NhSwap ==
  createNextHop("fe80::b", Some("if_a_b"), 2,
                Some(createMplsAction("SWAP", Some(103), None)), FALSE, Some("0"))

NhPhp ==
  createNextHop("fe80::b", Some("if_a_b"), 1,
                Some(createMplsAction("PHP", None, None)), FALSE, Some("0"))

BgpEntryOf(prefix, mv) ==
  [DefaultPrefixEntry EXCEPT !.prefix = prefix, !.type = "BGP",
                             !.data = "bgp-attrs", !.mv = Some(mv)]

DeltaPrefixes == {"10.1.0.0/16", "10.2.0.0/16"}

DeltaLabels == {102, 103}

DeltaUnicastEntries(p) ==
  {RibUnicastEntry(p, {NhB}, DefaultPrefixEntry, FALSE, None),
   RibUnicastEntry(p, {NhB, NhC}, DefaultPrefixEntry, FALSE, None),
   RibUnicastEntry(p, {NhB}, BgpEntryOf(p, <<1>>), TRUE, Some(NhLoopB)),
   RibUnicastEntry(p, {NhB}, BgpEntryOf(p, <<2>>), TRUE, Some(NhLoopB))}

DeltaMplsEntries(l) == {RibMplsEntry(l, {NhSwap}), RibMplsEntry(l, {NhPhp})}

(* Every map from a subset of keys to one of the entries of its key.       *)
PartialMaps(keys, entriesOf(_)) ==
  UNION {{f \in [D -> UNION {entriesOf(k) : k \in D}] :
            \A k \in D : f[k] \in entriesOf(k)} : D \in SUBSET keys}

DeltaRouteDbs ==
  [unicastEntries : PartialMaps(DeltaPrefixes, DeltaUnicastEntries),
   mplsEntries : PartialMaps(DeltaLabels, DeltaMplsEntries)]

StaticNhX == createNextHop("fc00::1", None, 0, None, FALSE, None)

StaticNhY == createNextHop("fc00::2", None, 0, None, FALSE, None)

StaticRoute(label, nh) == [topLabel |-> label, nextHops |-> <<nh>>]

StaticDelta(routes, labels) ==
  [EmptyDelta EXCEPT !.mplsRoutesToUpdate = routes, !.mplsRoutesToDelete = labels]

StaticDeltas ==
  {StaticDelta(<<StaticRoute(60000, StaticNhX)>>, << >>),
   StaticDelta(<<StaticRoute(60000, StaticNhY)>>, << >>),
   StaticDelta(<<StaticRoute(60001, StaticNhX)>>, << >>),
   StaticDelta(<< >>, <<60000>>),
   StaticDelta(<< >>, <<60001>>),
   StaticDelta(<<StaticRoute(60000, StaticNhX)>>, <<60000>>),
   StaticDelta(<<StaticRoute(60000, StaticNhX), StaticRoute(60000, StaticNhY)>>,
               <<60001>>),
   StaticDelta(<< >>, << >>)}

StaticTables ==
  {EmptyMap,
   [l \in {60000} |-> <<StaticNhX>>],
   [l \in {60000, 60001} |-> <<StaticNhY>>]}

(* The static-route deltas a test may hold queued at once.                 *)
MaxStaticQueue == 2

-----------------------------------------------------------------------------
(* The network of the event-loop checks: a - b - c in a line, a being this *)
(* node, and one BGP anycast prefix that a and b advertise.                *)

SolverFlags ==
  [enableV4 |-> FALSE, computeLfaPaths |-> FALSE, bgpDryRun |-> FALSE,
   bgpUseIgpMetric |-> FALSE]

(* With and without cold start, ordered FIB programming and RibPolicy.     *)
Configs ==
  {[flags |-> SolverFlags, enable_ordered_fib_programming |-> on,
    enable_rib_policy |-> on, eor_time_s |-> on] : on \in BOOLEAN}

AdjAB == Adjacency("b", "if_a_b", "if_b_a", 1, 50012, "fe80::b")

AdjBA == Adjacency("a", "if_b_a", "if_a_b", 1, 0, "fe80::a")

AdjBC == Adjacency("c", "if_b_c", "if_c_b", 1, 0, "fe80::c")

AdjCB == Adjacency("b", "if_c_b", "if_b_c", 1, 0, "fe80::b")

AdjValue(db) == Some([kind |-> "AdjacencyDatabase", db |-> db])

PrefixValue(db) == Some([kind |-> "PrefixDatabase", db |-> db])

AnycastPrefix == IpPrefix("fc00:2::", 64, FALSE)

MvOf(tieBreak) ==
  MetricVector(1, <<createMetricEntity("LOCAL_PREF", 9000, "WIN_IF_PRESENT",
                                       FALSE, <<100>>),
                    createMetricEntity("ROUTER_ID", 10, "WIN_IF_PRESENT",
                                       TRUE, <<tieBreak>>)>>)

AnycastEntry(tieBreak, prependLabel) ==
  PrefixEntry(AnycastPrefix, "BGP", "SR_MPLS", "KSP2_ED_ECMP",
              Some(MvOf(tieBreak)), prependLabel, None)

KeyVal(key, value) == [key |-> key, value |-> value]

(* The publications the KvStore may deliver, in any order and repeatedly:  *)
(* a dump with the databases of a and c and the prefixes of a and b, and   *)
(* the adjacency database of b before and after its link to c comes up.    *)
Publications ==
  {Publication(Some(kDefaultArea),
     <<KeyVal(KvKey("adj:", "a", None),
              AdjValue(AdjacencyDatabase("a", {AdjAB}, 101, FALSE))),
       KeyVal(KvKey("adj:", "c", None),
              AdjValue(AdjacencyDatabase("c", {AdjCB}, 103, FALSE))),
       KeyVal(KvKey("prefix:", "a", None),
              PrefixValue(PrefixDatabase(
                "a", <<AnycastEntry(1, Some(60000))>>, FALSE))),
       KeyVal(KvKey("prefix:", "b", None),
              PrefixValue(PrefixDatabase(
                "b", <<AnycastEntry(2, None)>>, FALSE)))>>,
     << >>),
   Publication(Some(kDefaultArea),
     <<KeyVal(KvKey("adj:", "b", None),
              AdjValue(AdjacencyDatabase("b", {AdjBA}, 102, FALSE)))>>,
     << >>),
   Publication(Some(kDefaultArea),
     <<KeyVal(KvKey("adj:", "b", None),
              AdjValue(AdjacencyDatabase("b", {AdjBA, AdjBC}, 102, FALSE)))>>,
     << >>)}

(* The static-route deltas PrefixManager may send.                         *)
DecisionStaticDeltas ==
  {StaticDelta(<<StaticRoute(60000, StaticNhX)>>, << >>)}

(* The static-route deltas that may wait for one debounce fire.            *)
MaxPendingStatic == 1

RibPolicyOf(statements) == [statements |-> statements]

(* Next hops of the default area get weight 0 and go, the others stay     *)
(* with weight 1.                                                          *)
PolicyWeigh ==
  RibPolicyOf(<<RibPolicyStatement({AnycastPrefix}, 1,
                                   [area \in {kDefaultArea} |-> 0])>>)

PolicyInvalid == RibPolicyOf(<< >>)

RibPolicies == {PolicyWeigh, PolicyInvalid}

(* The TTL a policy has left when the event loop gets to it.               *)
DurationsLeft == {0, 1}

-----------------------------------------------------------------------------
(* The event loop.                                                         *)

(* The object's state as a record, and the variables set from one.         *)
This ==
  [staticRoutes_ |-> staticRoutes_,
   staticRoutesUpdates_ |-> staticRoutesUpdates_,
   config_ |-> config_,
   areaLinkStates_ |-> areaLinkStates_,
   prefixState_ |-> prefixState_,
   perPrefixPrefixEntries_ |-> perPrefixPrefixEntries_,
   fullDbPrefixEntries_ |-> fullDbPrefixEntries_,
   fibTimes_ |-> fibTimes_,
   pendingUpdates_ |-> pendingUpdates_,
   processUpdatesBackoff_ |-> processUpdatesBackoff_,
   processUpdatesTimer_ |-> processUpdatesTimer_,
   coldStartTimer_ |-> coldStartTimer_,
   orderedFibTimer_ |-> orderedFibTimer_,
   ribPolicy_ |-> ribPolicy_,
   ribPolicyTimer_ |-> ribPolicyTimer_,
   routeDb_ |-> routeDb_,
   routeUpdatesQueue_ |-> << >>,
   burst |-> burst,
   aborted |-> aborted,
   kvStoreReader |-> kvStoreReader,
   staticRoutesReader |-> staticRoutesReader]

(* The reader of the queue applies the route deltas it is handed.          *)
RECURSIVE ApplyPushes(_, _)
ApplyPushes(routes, pushes) ==
  IF pushes = << >> THEN routes
  ELSE ApplyPushes(
         IF Head(pushes).kind = "route"
         THEN [unicast |-> ApplyUnicastDelta(routes.unicast, Head(pushes).delta),
               mpls |-> ApplyMplsDelta(routes.mpls, Head(pushes).delta)]
         ELSE routes,
         Tail(pushes))

Becomes(d) ==
  /\ staticRoutes_' = d.staticRoutes_
  /\ staticRoutesUpdates_' = d.staticRoutesUpdates_
  /\ config_' = d.config_
  /\ areaLinkStates_' = d.areaLinkStates_
  /\ prefixState_' = d.prefixState_
  /\ perPrefixPrefixEntries_' = d.perPrefixPrefixEntries_
  /\ fullDbPrefixEntries_' = d.fullDbPrefixEntries_
  /\ fibTimes_' = d.fibTimes_
  /\ pendingUpdates_' = d.pendingUpdates_
  /\ processUpdatesBackoff_' = d.processUpdatesBackoff_
  /\ processUpdatesTimer_' = d.processUpdatesTimer_
  /\ coldStartTimer_' = d.coldStartTimer_
  /\ orderedFibTimer_' = d.orderedFibTimer_
  /\ ribPolicy_' = d.ribPolicy_
  /\ ribPolicyTimer_' = d.ribPolicyTimer_
  /\ routeDb_' = d.routeDb_
  /\ routeUpdatesQueue_' = d.routeUpdatesQueue_
  /\ fibRoutes' = ApplyPushes(fibRoutes, d.routeUpdatesQueue_)
  /\ burst' = d.burst
  /\ aborted' = d.aborted
  /\ kvStoreReader' = d.kvStoreReader
  /\ staticRoutesReader' = d.staticRoutesReader

(* A handler runs once and the object takes the state it leaves.           *)
Run(after) == \E d \in {after} : Becomes(d)

(* The state the constructor leaves.                                       *)
Constructed(config) ==
  /\ config_ = config
  /\ areaLinkStates_ = EmptyMap
  /\ prefixState_ = EmptyMap
  /\ perPrefixPrefixEntries_ = EmptyMap
  /\ fullDbPrefixEntries_ = EmptyMap
  /\ fibTimes_ = EmptyMap
  /\ pendingUpdates_ = FALSE
  /\ processUpdatesBackoff_ = 0
  /\ processUpdatesTimer_ = None
  /\ coldStartTimer_ = config.eor_time_s
  /\ orderedFibTimer_ = FALSE
  /\ ribPolicy_ = None
  /\ ribPolicyTimer_ = FALSE
  /\ routeDb_ = EmptyRouteDb
  /\ routeUpdatesQueue_ = << >>
  /\ fibRoutes = [unicast |-> EmptyMap, mpls |-> EmptyMap]
  /\ burst = None
  /\ aborted = ""
  /\ kvStoreReader = "reading"
  /\ staticRoutesReader = "reading"

IdleCall == [fn |-> "none"]

Init ==
  /\ callArgs = IdleCall
  /\ callRet = None
  /\ staticRoutes_ = EmptyMap
  /\ staticRoutesUpdates_ = << >>
  /\ \E config \in Configs : Constructed(config)

Handler(fn) == [fn |-> fn]

KvStoreUpdate(thriftPub) ==
  /\ aborted = ""
  /\ kvStoreReader = "reading"
  /\ Run(KvStoreUpdatesFiber(This, thriftPub))
  /\ callArgs' = Handler("KvStoreUpdatesFiber")
  /\ callRet' = None

StaticRoutesUpdate(staticRoutesDelta) ==
  /\ aborted = ""
  /\ staticRoutesReader = "reading"
  /\ Len(staticRoutesUpdates_) < MaxPendingStatic
  /\ Run(StaticRoutesUpdateFiber(This, staticRoutesDelta))
  /\ callArgs' = Handler("StaticRoutesUpdateFiber")
  /\ callRet' = None

(* A unit of time passes; the debounce timer is never late.                *)
Tick ==
  /\ aborted = ""
  /\ processUpdatesTimer_ # None
  /\ TheValue(processUpdatesTimer_) > 0
  /\ Run([This EXCEPT
                !.processUpdatesTimer_ = Some(TheValue(@) - 1),
                !.burst = IF @ = None THEN None
                          ELSE Some([TheValue(@) EXCEPT !.age = @ + 1])])
  /\ callArgs' = IdleCall
  /\ callRet' = None

ProcessUpdatesTimerFires ==
  /\ aborted = ""
  /\ processUpdatesTimer_ = Some(0)
  /\ Run(ProcessUpdatesTimerCallback(This))
  /\ callArgs' = [fn |-> "processPendingUpdates",
                  needsRouteUpdate |-> pendingUpdates_, burst |-> burst]
  /\ callRet' = None

ColdStartTimerFires ==
  /\ aborted = ""
  /\ coldStartTimer_
  /\ \E found \in {None} \cup {Some(db) : db \in IndeterminateRouteDbs} :
       Run(coldStartUpdate(This, found))
  /\ callArgs' = Handler("coldStartUpdate")
  /\ callRet' = None

OrderedFibTimerFires ==
  /\ aborted = ""
  /\ orderedFibTimer_
  /\ Run(decrementOrderedFibHolds(This))
  /\ callArgs' = Handler("decrementOrderedFibHolds")
  /\ callRet' = None

SetRibPolicy(ribPolicyThrift, durationLeft) ==
  /\ aborted = ""
  /\ LET res == setRibPolicy(This, ribPolicyThrift, durationLeft)
     IN /\ Run(res.d)
        /\ callArgs' = [fn |-> "setRibPolicy", ribPolicy |-> ribPolicyThrift,
                        durationLeft |-> durationLeft]
        /\ callRet' = Some(res.reply)

(* The TTL of the policy held runs out.                                    *)
RibPolicyTtlEnds ==
  /\ aborted = ""
  /\ ribPolicy_ # None
  /\ TheValue(ribPolicy_).active
  /\ Run([This EXCEPT
                !.ribPolicy_ = Some([TheValue(@) EXCEPT !.active = FALSE])])
  /\ callArgs' = IdleCall
  /\ callRet' = None

RibPolicyTimerFires ==
  /\ aborted = ""
  /\ ribPolicyTimer_
  /\ ~TheValue(ribPolicy_).active
  /\ Run(RibPolicyTimerCallback(This))
  /\ callArgs' = Handler("RibPolicyTimerCallback")
  /\ callRet' = None

(* Time passes until the debounce timer is due.                            *)
Elapse ==
  /\ aborted = ""
  /\ processUpdatesTimer_ # None
  /\ TheValue(processUpdatesTimer_) > 0
  /\ Run([This EXCEPT
                !.processUpdatesTimer_ = Some(0),
                !.burst = IF @ = None THEN None
                          ELSE Some([TheValue(@) EXCEPT
                                       !.age = @ + TheValue(processUpdatesTimer_)])])
  /\ callArgs' = IdleCall
  /\ callRet' = None

Next ==
  \/ \E thriftPub \in Publications : KvStoreUpdate(thriftPub)
  \/ \E staticRoutesDelta \in DecisionStaticDeltas :
       StaticRoutesUpdate(staticRoutesDelta)
  \/ Elapse
  \/ ProcessUpdatesTimerFires
  \/ ColdStartTimerFires
  \/ OrderedFibTimerFires
  \/ \E ribPolicyThrift \in RibPolicies, durationLeft \in DurationsLeft :
       SetRibPolicy(ribPolicyThrift, durationLeft)
  \/ RibPolicyTtlEnds
  \/ RibPolicyTimerFires

Spec == Init /\ [][Next]_vars

(* The event loop with the RibPolicy timer running: a policy held runs out *)
(* of TTL, and a timer that is due is run by the event base.               *)
SpecPolicyExpiry ==
  /\ Init
  /\ [][Next]_vars
  /\ WF_vars(RibPolicyTtlEnds)
  /\ WF_vars(RibPolicyTimerFires)

(* q.get() of the KvStore updates fiber reports an error, which it does    *)
(* once the queue is closed: the fiber leaves its loop.                    *)
KvStoreUpdatesQueueCloses ==
  /\ aborted = ""
  /\ kvStoreReader = "reading"
  /\ Run([This EXCEPT !.kvStoreReader = "terminated"])
  /\ callArgs' = [fn |-> "KvStoreUpdatesFiber", hasError |-> TRUE]
  /\ callRet' = None

(* The same for the static routes fiber.                                   *)
StaticRoutesUpdateQueueCloses ==
  /\ aborted = ""
  /\ staticRoutesReader = "reading"
  /\ Run([This EXCEPT !.staticRoutesReader = "terminated"])
  /\ callArgs' = [fn |-> "StaticRoutesUpdateFiber", hasError |-> TRUE]
  /\ callRet' = None

(* The event loop with the two input queues closed at any time, and with   *)
(* the event base running a debounce timer that is due.  Next above is the *)
(* loop while both queues stay open.                                       *)
ClosureNext ==
  \/ \E thriftPub \in Publications : KvStoreUpdate(thriftPub)
  \/ \E staticRoutesDelta \in DecisionStaticDeltas :
       StaticRoutesUpdate(staticRoutesDelta)
  \/ KvStoreUpdatesQueueCloses
  \/ StaticRoutesUpdateQueueCloses
  \/ Elapse
  \/ ProcessUpdatesTimerFires
  \/ ColdStartTimerFires

(* The debounce timer is due and the event base is there to run it.        *)
DebounceTimerDue == aborted = "" /\ processUpdatesTimer_ = Some(0)

(* Time passes, and a timer that is due does not stay due for ever: the    *)
(* event base runs its callback, which is enabled exactly then.            *)
SpecClosure ==
  /\ Init
  /\ [][ClosureNext]_vars
  /\ WF_vars(Elapse)
  /\ []<>~DebounceTimerDue

(* The readers and the timers of the debounce, with time passing and a due *)
(* debounce timer run by the event base.                                   *)
FairDebounceNext ==
  \/ \E thriftPub \in Publications : KvStoreUpdate(thriftPub)
  \/ \E staticRoutesDelta \in DecisionStaticDeltas :
       StaticRoutesUpdate(staticRoutesDelta)
  \/ Elapse
  \/ ProcessUpdatesTimerFires
  \/ ColdStartTimerFires

SpecFairDebounce ==
  /\ Init
  /\ [][FairDebounceNext]_vars
  /\ WF_vars(Elapse)
  /\ []<>~DebounceTimerDue

(* The debounce with time in units: the publications, the static-route    *)
(* deltas and the two timers they meet.                                    *)
DebounceNext ==
  \/ \E thriftPub \in Publications : KvStoreUpdate(thriftPub)
  \/ \E staticRoutesDelta \in DecisionStaticDeltas :
       StaticRoutesUpdate(staticRoutesDelta)
  \/ Tick
  \/ ProcessUpdatesTimerFires
  \/ ColdStartTimerFires

SpecDebounce == Init /\ [][DebounceNext]_vars

-----------------------------------------------------------------------------
(* Checks of the pure functions: the inputs are drawn at the start, the    *)
(* actions call the function.  The Decision object stays as constructed.   *)

DeltaInit ==
  /\ callArgs \in [fn : {"getRouteDelta"},
                   newDb : DeltaRouteDbs, oldDb : DeltaRouteDbs]
  /\ callRet = None
  /\ staticRoutes_ = EmptyMap
  /\ staticRoutesUpdates_ = << >>
  /\ Constructed(CHOOSE config \in Configs : ~config.eor_time_s)

CallGetRouteDelta ==
  /\ callArgs.fn = "getRouteDelta"
  /\ callRet = None
  /\ callRet' = Some(getRouteDelta(callArgs.newDb, callArgs.oldDb))
  /\ UNCHANGED <<callArgs, solverVars, decisionVars>>

DeltaNext == CallGetRouteDelta

SpecDelta == DeltaInit /\ [][DeltaNext]_vars

StaticInit ==
  /\ callArgs = IdleCall
  /\ callRet = None
  /\ staticRoutes_ \in StaticTables
  /\ staticRoutesUpdates_ = << >>
  /\ Constructed(CHOOSE config \in Configs : ~config.eor_time_s)

CallPushRoutesDeltaUpdates(delta) ==
  /\ Len(staticRoutesUpdates_) < MaxStaticQueue
  /\ staticRoutesUpdates_' = pushRoutesDeltaUpdates(staticRoutesUpdates_, delta)
  /\ callArgs' = IdleCall
  /\ callRet' = None
  /\ UNCHANGED <<staticRoutes_, decisionVars>>

CallProcessStaticRouteUpdates ==
  LET res == processStaticRouteUpdates(staticRoutes_, staticRoutesUpdates_)
  IN /\ callArgs' = [fn |-> "processStaticRouteUpdates",
                     staticRoutes |-> staticRoutes_,
                     updates |-> staticRoutesUpdates_]
     /\ callRet' = res.ret
     /\ staticRoutes_' = res.staticRoutes
     /\ staticRoutesUpdates_' = res.updates
     /\ UNCHANGED decisionVars

StaticNext ==
  \/ \E delta \in StaticDeltas : CallPushRoutesDeltaUpdates(delta)
  \/ CallProcessStaticRouteUpdates

SpecStatic == StaticInit /\ [][StaticNext]_vars

-----------------------------------------------------------------------------
(* SpfSolverImpl::buildRouteDb on its own.  The networks: three nodes, any *)
(* two of them linked or not, with a metric up to MaxLinkMetric, every node    *)
(* computing its routes; node labels all different or one of them shared   *)
(* by two nodes; every node advertising its loopback address, and b and c  *)
(* advertising one more prefix in each of the ways the solver tells apart. *)

MaxLinkMetric == 2

SolverNodes == {"a", "b", "c"}

SolverPairs == {<<"a", "b">>, <<"b", "c">>, <<"a", "c">>}

SolverAdjacency(x, y, m) ==
  Adjacency(y, "if_" \o x \o "_" \o y, "if_" \o y \o "_" \o x, m, 0,
            "fe80::" \o y)

OwnNodeLabel(n) == CASE n = "a" -> 101 [] n = "b" -> 102 [] OTHER -> 103

(* The link state of the network whose pairs have the given metrics (0 for *)
(* no link) and where the nodes of shared advertise node label 100.        *)
SolverLinkState(metrics, shared) ==
  LinkStateWith(kDefaultArea,
    [n \in SolverNodes |->
       AdjacencyDatabase(
         n,
         {SolverAdjacency(n, CHOOSE y \in {q[1], q[2]} : y # n, metrics[q]) :
            q \in {r \in SolverPairs : n \in {r[1], r[2]} /\ metrics[r] > 0}},
         IF n \in shared THEN 100 ELSE OwnNodeLabel(n),
         FALSE)],
    EmptyMap, {})

SolverLinkStates(shareds) ==
  {SolverLinkState(metrics, shared) :
     metrics \in [SolverPairs -> 0..MaxLinkMetric], shared \in shareds}

LoopbackOf(n) == IpPrefix("fc00::" \o n, 128, FALSE)

LoopbackEntry(n) ==
  PrefixEntry(LoopbackOf(n), "LOOPBACK", "IP", "SP_ECMP", None, None, None)

SvcPrefix == IpPrefix("fc00:1::", 64, FALSE)

SvcPrefixV4 == IpPrefix("10.1.0.0", 16, TRUE)

SvcMv(version, localPref, routerId) ==
  Some(MetricVector(version,
         <<createMetricEntity("LOCAL_PREF", 9000, "WIN_IF_PRESENT", FALSE,
                              <<localPref>>),
           createMetricEntity("ROUTER_ID", 10, "WIN_IF_PRESENT", TRUE,
                              <<routerId>>)>>))

(* The prefix state where the nodes of loopbacks advertise their loopback  *)
(* address and b and c advertise prefix with the given entries.            *)
SolverPrefixState(loopbacks, prefix, entryOfB, entryOfC) ==
  [q \in {LoopbackOf(n) : n \in loopbacks} \cup {prefix} |->
     IF q = prefix
     THEN [n \in {"b", "c"} |->
             [(IF n = "b" THEN entryOfB ELSE entryOfC) EXCEPT !.prefix = prefix]]
     ELSE [n \in {m \in loopbacks : LoopbackOf(m) = q} |-> LoopbackEntry(n)]]

OpenrEntry(forwardingType, forwardingAlgorithm, minNexthop) ==
  PrefixEntry(SvcPrefix, "DEFAULT", forwardingType, forwardingAlgorithm, None,
              None, minNexthop)

BgpEntry(forwardingType, forwardingAlgorithm, mv) ==
  PrefixEntry(SvcPrefix, "BGP", forwardingType, forwardingAlgorithm, mv, None,
              None)

SolverPrefixStates ==
  {SolverPrefixState(SolverNodes, SvcPrefix, entries[1], entries[2]) :
     entries \in
       {<<OpenrEntry("IP", "SP_ECMP", None), OpenrEntry("IP", "SP_ECMP", None)>>,
        <<OpenrEntry("SR_MPLS", "SP_ECMP", None),
          OpenrEntry("SR_MPLS", "SP_ECMP", None)>>,
        <<OpenrEntry("SR_MPLS", "KSP2_ED_ECMP", None),
          OpenrEntry("SR_MPLS", "KSP2_ED_ECMP", None)>>,
        <<OpenrEntry("SR_MPLS", "KSP2_ED_ECMP", None),
          OpenrEntry("IP", "KSP2_ED_ECMP", None)>>,
        <<OpenrEntry("SR_MPLS", "KSP2_ED_ECMP", Some(3)),
          OpenrEntry("SR_MPLS", "KSP2_ED_ECMP", None)>>,
        <<BgpEntry("IP", "SP_ECMP", SvcMv(1, 100, 2)),
          BgpEntry("IP", "SP_ECMP", SvcMv(1, 100, 1))>>,
        <<BgpEntry("IP", "SP_ECMP", SvcMv(1, 200, 1)),
          BgpEntry("IP", "SP_ECMP", SvcMv(1, 100, 1))>>,
        <<BgpEntry("IP", "SP_ECMP", SvcMv(1, 100, 1)),
          BgpEntry("IP", "SP_ECMP", SvcMv(1, 100, 1))>>,
        <<BgpEntry("IP", "SP_ECMP", SvcMv(1, 100, 1)),
          BgpEntry("IP", "SP_ECMP", SvcMv(2, 100, 1))>>,
        <<BgpEntry("SR_MPLS", "KSP2_ED_ECMP", SvcMv(1, 100, 2)),
          BgpEntry("SR_MPLS", "KSP2_ED_ECMP", SvcMv(1, 100, 1))>>,
        <<BgpEntry("SR_MPLS", "KSP2_ED_ECMP", SvcMv(1, 100, 1)),
          BgpEntry("SR_MPLS", "KSP2_ED_ECMP", SvcMv(1, 100, 1))>>,
        <<BgpEntry("IP", "SP_ECMP", SvcMv(1, 100, 1)),
          OpenrEntry("IP", "SP_ECMP", None)>>,
        <<BgpEntry("IP", "SP_ECMP", SvcMv(1, 100, 1)),
          BgpEntry("IP", "SP_ECMP", None)>>}}
  \cup {SolverPrefixState(SolverNodes, SvcPrefixV4,
                          OpenrEntry("IP", "SP_ECMP", None),
                          OpenrEntry("IP", "SP_ECMP", None)),
        SolverPrefixState({"a", "c"}, SvcPrefix,
                          BgpEntry("IP", "SP_ECMP", SvcMv(1, 200, 1)),
                          BgpEntry("IP", "SP_ECMP", SvcMv(1, 100, 1)))}

SolverFlagSets ==
  {[enableV4 |-> f[1], computeLfaPaths |-> f[2], bgpDryRun |-> FALSE,
    bgpUseIgpMetric |-> f[3]] :
     f \in {<<FALSE, FALSE, FALSE>>, <<FALSE, TRUE, FALSE>>,
            <<TRUE, FALSE, TRUE>>}}

(* Two orders in which an unordered_map may hand out the adjacency         *)
(* databases: any two nodes come in either order.                          *)
SolverOrders == {IterOrder(SolverNodes), Reverse(IterOrder(SolverNodes))}

(* The calls checked: every prefix state on the networks with distinct     *)
(* node labels, and the networks with a shared label in both orders.       *)
SolverCalls ==
  [fn : {"SpfSolverImpl::buildRouteDb"}, flags : SolverFlagSets,
   myNodeName : SolverNodes, ls : SolverLinkStates({{}}),
   prefixes : SolverPrefixStates, order : {IterOrder(SolverNodes)}]
  \cup
  [fn : {"SpfSolverImpl::buildRouteDb"}, flags : SolverFlagSets,
   myNodeName : SolverNodes,
   ls : SolverLinkStates({{"a", "b"}, {"b", "c"}, {"a", "c"}}),
   prefixes : {CHOOSE prefixes \in SolverPrefixStates : TRUE},
   order : SolverOrders]

SolverInit ==
  /\ callArgs \in SolverCalls
  /\ callRet = None
  /\ staticRoutes_ = EmptyMap
  /\ staticRoutesUpdates_ = << >>
  /\ Constructed(CHOOSE config \in Configs : ~config.eor_time_s)

CallSolverBuildRouteDb ==
  /\ callArgs.fn = "SpfSolverImpl::buildRouteDb"
  /\ callRet = None
  /\ callRet' = Some(SolverBuildRouteDbVisiting(
                       callArgs.flags, staticRoutes_, callArgs.myNodeName,
                       callArgs.ls, callArgs.prefixes, callArgs.order))
  /\ UNCHANGED <<callArgs, solverVars, decisionVars>>

SolverNext == CallSolverBuildRouteDb

SpecSolver == SolverInit /\ [][SolverNext]_vars

-----------------------------------------------------------------------------
(* SpfSolverImpl::runBestPathSelectionBgp on its own: any of the networks  *)
(* above, any node computing, any non-empty set of nodes advertising the   *)
(* prefix over BGP, each with one of three metric vectors (the third one   *)
(* carries an OPENR_IGP_COST entity of its own), visited in any order.     *)

Orderings(S) ==
  {order \in [1..Cardinality(S) -> S] :
     \A i, j \in 1..Cardinality(S) : order[i] = order[j] => i = j}

IgpTaggedMv ==
  Some(MetricVector(1,
         <<createMetricEntity("LOCAL_PREF", 9000, "WIN_IF_PRESENT", FALSE,
                              <<100>>),
           createMetricEntity(OPENR_IGP_COST, OPENR_IGP_COST_PRIORITY,
                              "WIN_IF_NOT_PRESENT", FALSE, <<0>>)>>))

BestPathVectors == {SvcMv(1, 100, 1), SvcMv(1, 200, 1), IgpTaggedMv}

BestPathNodePrefixes ==
  UNION {[advertisers -> {BgpEntry("IP", "SP_ECMP", mv) :
                            mv \in BestPathVectors}] :
           advertisers \in (SUBSET SolverNodes) \ {{}}}

BestPathCalls ==
  UNION {[fn : {"SpfSolverImpl::runBestPathSelectionBgp"},
          flags : {f \in SolverFlagSets : ~f.computeLfaPaths},
          myNodeName : SolverNodes, ls : SolverLinkStates({{}}),
          nodePrefixes : {nodePrefixes},
          order : Orderings(DOMAIN nodePrefixes)] :
           nodePrefixes \in BestPathNodePrefixes}

BestPathInit ==
  /\ callArgs \in BestPathCalls
  /\ callRet = None
  /\ staticRoutes_ = EmptyMap
  /\ staticRoutesUpdates_ = << >>
  /\ Constructed(CHOOSE config \in Configs : ~config.eor_time_s)

CallRunBestPathSelectionBgp ==
  /\ callArgs.fn = "SpfSolverImpl::runBestPathSelectionBgp"
  /\ callRet = None
  /\ callRet' = Some(runBestPathSelectionBgpVisiting(
                       callArgs.flags, callArgs.myNodeName,
                       callArgs.nodePrefixes, callArgs.ls, callArgs.order))
  /\ UNCHANGED <<callArgs, solverVars, decisionVars>>

BestPathNext == CallRunBestPathSelectionBgp

SpecBestPath == BestPathInit /\ [][BestPathNext]_vars

-----------------------------------------------------------------------------
(* The KvStore updates fiber with publications whose values may fail to    *)
(* deserialize: up to two keys of the node b or a, at least one of them    *)
(* with bytes that are not of its kind, and at most one expired key.  The  *)
(* event loop runs as above up to the publication examined, which is kept  *)
(* with the state it found.                                                *)

MalformedValue == Some([kind |-> "malformed"])

FibTimeValue(ms) == Some([kind |-> "int64", db |-> ms])

LsdbKeyVals ==
  {KeyVal(KvKey("adj:", "b", None),
          AdjValue(AdjacencyDatabase("b", {AdjBA}, 102, FALSE))),
   KeyVal(KvKey("adj:", "b", None), MalformedValue),
   KeyVal(KvKey("adj:", "a", None),
          AdjValue(AdjacencyDatabase("a", {AdjAB}, 101, FALSE))),
   KeyVal(KvKey("prefix:", "b", None),
          PrefixValue(PrefixDatabase("b", <<AnycastEntry(2, None)>>, FALSE))),
   KeyVal(KvKey("prefix:", "b", None), MalformedValue),
   KeyVal(KvKey("fibtime:", "b", None), FibTimeValue(1)),
   KeyVal(KvKey("fibtime:", "b", None), MalformedValue)}

LsdbPublications ==
  {Publication(Some(kDefaultArea), keyVals, expiredKeys) :
     keyVals \in {<<kv>> : kv \in LsdbKeyVals}
                   \cup {kvs \in LsdbKeyVals \X LsdbKeyVals :
                           /\ kvs[1].key # kvs[2].key
                           /\ MalformedValue \in {kvs[1].value, kvs[2].value}},
     expiredKeys \in {<< >>, <<KvKey("adj:", "b", None)>>,
                      <<KvKey("prefix:", "b", None)>>}}

FibTimePublication ==
  Publication(Some(kDefaultArea),
              <<KeyVal(KvKey("fibtime:", "b", None), FibTimeValue(2))>>, << >>)

KvStoreUpdateOf(thriftPub) ==
  /\ aborted = ""
  /\ callArgs.fn # "processPublication"
  /\ kvStoreReader = "reading"
  /\ Run(KvStoreUpdatesFiber(This, thriftPub))
  /\ callArgs' = [fn |-> "processPublication", thriftPub |-> thriftPub,
                  before |-> This]
  /\ callRet' = None

PublicationNext ==
  \/ \E thriftPub \in LsdbPublications : KvStoreUpdateOf(thriftPub)
  \/ /\ callArgs.fn # "processPublication"
     /\ \/ \E thriftPub \in Publications \cup {FibTimePublication} :
             KvStoreUpdate(thriftPub)
        \/ Elapse
        \/ ProcessUpdatesTimerFires
        \/ ColdStartTimerFires

SpecPublication == Init /\ [][PublicationNext]_vars

-----------------------------------------------------------------------------
(* KvStoreDb::getNextState, the state of a KvStore peer after an event, as *)
(* TEST(KvStore, StateTransitionTest) expects it, and one peer taking the  *)
(* events of that test from IDLE on, with the states it went through.      *)

(* getNextState with a peer that stays INITIALIZED when a sync times out.  *)
getNextStateKeepingInitialized(currState, event) ==
  CASE currState = "IDLE" /\ event = "PEER_ADD" -> "SYNCING"
    [] currState = "SYNCING" /\ event = "SYNC_RESP_RCVD" -> "INITIALIZED"
    [] currState = "SYNCING" -> "IDLE"
    [] currState = "INITIALIZED" /\ event = "THRIFT_API_ERROR" -> "IDLE"
    [] currState = "INITIALIZED" -> "INITIALIZED"

getNextState(currState, event) ==
  CASE currState = "IDLE" /\ event = "PEER_ADD" -> "SYNCING"
    [] currState = "SYNCING" /\ event = "SYNC_RESP_RCVD" -> "INITIALIZED"
    [] currState = "SYNCING" /\ event = "SYNC_TIMEOUT" -> "IDLE"
    [] currState = "SYNCING" /\ event = "THRIFT_API_ERROR" -> "IDLE"
    [] currState = "INITIALIZED" /\ event = "SYNC_TIMEOUT" -> "IDLE"
    [] currState = "INITIALIZED" /\ event = "THRIFT_API_ERROR" -> "IDLE"
    [] currState = "INITIALIZED" /\ event = "SYNC_RESP_RCVD" -> "INITIALIZED"

(* The pairs the test calls getNextState with.                             *)
StateTransitionPairs ==
  {<<"IDLE", "PEER_ADD">>, <<"SYNCING", "SYNC_RESP_RCVD">>,
   <<"SYNCING", "SYNC_TIMEOUT">>, <<"SYNCING", "THRIFT_API_ERROR">>,
   <<"INITIALIZED", "SYNC_TIMEOUT">>, <<"INITIALIZED", "THRIFT_API_ERROR">>,
   <<"INITIALIZED", "SYNC_RESP_RCVD">>}

KvStorePeerEvents == {pair[2] : pair \in StateTransitionPairs}

MaxPeerEvents == 7

PeerInit ==
  /\ callArgs = [fn |-> "KvStoreDb::getNextState", states |-> <<"IDLE">>,
                 events |-> << >>]
  /\ callRet = None
  /\ staticRoutes_ = EmptyMap
  /\ staticRoutesUpdates_ = << >>
  /\ Constructed(CHOOSE config \in Configs : ~config.eor_time_s)

PeerEvent(event) ==
  /\ callArgs.fn = "KvStoreDb::getNextState"
  /\ Len(callArgs.events) < MaxPeerEvents
  /\ <<callArgs.states[Len(callArgs.states)], event>> \in StateTransitionPairs
  /\ callArgs' = [callArgs EXCEPT
                    !.events = Append(@, event),
                    !.states = Append(@, getNextState(@[Len(@)], event))]
  /\ callRet' = Some(getNextState(callArgs.states[Len(callArgs.states)], event))
  /\ UNCHANGED <<solverVars, decisionVars>>

PeerNext == \E event \in KvStorePeerEvents : PeerEvent(event)

SpecPeer == PeerInit /\ [][PeerNext]_vars

-----------------------------------------------------------------------------
(* SpfSolverImpl::buildRouteDb with prepend labels, minNexthop thresholds  *)
(* and static MPLS routes: the networks above with distinct node labels,   *)
(* b and c advertising one prefix, over BGP or not, for KSP2 or SP_ECMP,   *)
(* with or without a prepend label and a threshold, and the static routes  *)
(* of the prepend label with none, one or two next hops, of which the two  *)
(* have one address.                                                       *)

Ksp2Entry(type, mv, prependLabel, minNexthop) ==
  PrefixEntry(SvcPrefix, type, "SR_MPLS", "KSP2_ED_ECMP", mv, prependLabel,
              minNexthop)

PrependPrefixStates ==
  {SolverPrefixState(SolverNodes, SvcPrefix, entries[1], entries[2]) :
     entries \in
       {<<Ksp2Entry("BGP", SvcMv(1, 100, 2), Some(60000), None),
          Ksp2Entry("BGP", SvcMv(1, 100, 1), None, None)>>,
        <<Ksp2Entry("BGP", SvcMv(1, 100, 2), None, None),
          Ksp2Entry("BGP", SvcMv(1, 100, 1), Some(60000), None)>>,
        <<Ksp2Entry("BGP", SvcMv(1, 100, 2), Some(60000), Some(2)),
          Ksp2Entry("BGP", SvcMv(1, 100, 1), Some(60001), Some(1))>>,
        <<Ksp2Entry("BGP", SvcMv(1, 200, 1), Some(60000), None),
          Ksp2Entry("BGP", SvcMv(1, 100, 1), None, Some(2))>>,
        <<Ksp2Entry("BGP", SvcMv(1, 100, 2), None, None),
          Ksp2Entry("BGP", SvcMv(1, 100, 1), None, None)>>,
        <<Ksp2Entry("DEFAULT", None, Some(60000), None),
          Ksp2Entry("DEFAULT", None, None, None)>>,
        <<Ksp2Entry("DEFAULT", None, None, Some(2)),
          Ksp2Entry("DEFAULT", None, None, Some(1))>>,
        <<Ksp2Entry("DEFAULT", None, None, Some(1)),
          Ksp2Entry("DEFAULT", None, Some(60001), None)>>,
        <<BgpEntry("IP", "SP_ECMP", SvcMv(1, 100, 2)),
          BgpEntry("IP", "SP_ECMP", SvcMv(1, 100, 1))>>,
        <<BgpEntry("IP", "SP_ECMP", SvcMv(1, 200, 1)),
          BgpEntry("IP", "SP_ECMP", SvcMv(1, 100, 1))>>}}

PrependStaticTables ==
  {EmptyMap,
   [l \in {60000} |-> <<StaticNhX>>],
   [l \in {60000} |->
      <<StaticNhX, [StaticNhX EXCEPT !.ifName = Some("if_static")]>>]}

PrependCalls ==
  [fn : {"SpfSolverImpl::buildRouteDb"},
   flags : {f \in SolverFlagSets : ~f.computeLfaPaths},
   myNodeName : SolverNodes, ls : SolverLinkStates({{}}),
   prefixes : PrependPrefixStates, order : {IterOrder(SolverNodes)}]

PrependInit ==
  /\ callArgs \in PrependCalls
  /\ callRet = None
  /\ staticRoutes_ \in PrependStaticTables
  /\ staticRoutesUpdates_ = << >>
  /\ Constructed(CHOOSE config \in Configs : ~config.eor_time_s)

SpecPrepend == PrependInit /\ [][SolverNext]_vars

-----------------------------------------------------------------------------
(* Prefix databases under bare and per-prefix keys: node b announces its   *)
(* loopback and the anycast prefix, in databases of up to two entries,     *)
(* under its bare key and under the key of either prefix (with the entry   *)
(* of that prefix or of the other), as an update, a delete or an expired   *)
(* key; node c announces under its bare key.  Each step is one publication *)
(* with one key, and the database updateNodePrefixDatabase hands on is     *)
(* kept with the key and the state found.                                  *)

KeyedEntry(prefix, data) ==
  [PrefixEntry(prefix, "DEFAULT", "IP", "SP_ECMP", None, None, None)
     EXCEPT !.data = data]

KeyedEntries ==
  {KeyedEntry(LoopbackOf("b"), "first"), KeyedEntry(LoopbackOf("b"), "second"),
   KeyedEntry(AnycastPrefix, "first")}

PrefixKeys ==
  {KvKey("prefix:", "b", prefixKey) :
     prefixKey \in {None, Some(LoopbackOf("b")), Some(AnycastPrefix)}}

PrefixKeyUpdates ==
  [key : PrefixKeys,
   prefixDb : {PrefixDatabase("b", entries, deletePrefix) :
                 entries \in {<< >>} \cup {<<e>> : e \in KeyedEntries},
                 deletePrefix \in BOOLEAN}
                \cup {PrefixDatabase("b", entries, FALSE) :
                        entries \in KeyedEntries \X KeyedEntries},
   expired : {FALSE}]
    \cup [key : PrefixKeys, prefixDb : {PrefixDatabase("b", << >>, TRUE)},
          expired : {TRUE}]
    \cup [key : {KvKey("prefix:", "c", None)},
          prefixDb : {PrefixDatabase("c", <<LoopbackEntry("c")>>, FALSE)},
          expired : {FALSE}]

PublicationOf(update) ==
  IF update.expired
  THEN Publication(Some(kDefaultArea), << >>, <<update.key>>)
  ELSE Publication(Some(kDefaultArea),
                   <<KeyVal(update.key, PrefixValue(update.prefixDb))>>, << >>)

PrefixKeyUpdate(update) ==
  /\ aborted = ""
  /\ kvStoreReader = "reading"
  /\ Run(KvStoreUpdatesFiber(This, PublicationOf(update)))
  /\ callArgs' = [fn |-> "updateNodePrefixDatabase", key |-> update.key,
                  prefixDb |-> update.prefixDb, before |-> This]
  /\ callRet' = Some(updateNodePrefixDatabase(This, update.key,
                                              update.prefixDb).nodePrefixDb)

PrefixKeysNext == \E update \in PrefixKeyUpdates : PrefixKeyUpdate(update)

PrefixKeysInit ==
  /\ callArgs = IdleCall
  /\ callRet = None
  /\ staticRoutes_ = EmptyMap
  /\ staticRoutesUpdates_ = << >>
  /\ Constructed(CHOOSE config \in Configs : ~config.eor_time_s)

SpecPrefixKeys == PrefixKeysInit /\ [][PrefixKeysNext]_vars

-----------------------------------------------------------------------------
(* SpfSolverImpl::buildRouteDb with overloaded nodes and with labels that  *)
(* are not set or not valid: the networks above with any set of nodes      *)
(* overloaded, or with the adjacencies labelled and the node label of c or *)
(* the adjacency labels towards c zero or out of range; b and c advertise  *)
(* one prefix, over BGP or not, for SP_ECMP or KSP2.                       *)

DrainedLabellings ==
  {[node |-> "own", adj |-> "none"], [node |-> "own", adj |-> "valid"],
   [node |-> "zero", adj |-> "zero"], [node |-> "invalid", adj |-> "invalid"],
   [node |-> "invalid", adj |-> "none"]}

DrainedNodeLabel(n, labelling) ==
  IF n # "c" \/ labelling.node = "own" THEN OwnNodeLabel(n)
  ELSE IF labelling.node = "zero" THEN 0 ELSE 1048576

DrainedAdjLabel(x, y, labelling) ==
  IF labelling.adj = "none" THEN 0
  ELSE IF y # "c" \/ labelling.adj = "valid"
  THEN 50000 + 10 * OwnNodeLabel(x) + OwnNodeLabel(y) - 1111
  ELSE IF labelling.adj = "zero" THEN 0 ELSE 0 - 1

DrainedLinkState(metrics, drained, labelling) ==
  LinkStateWith(kDefaultArea,
    [n \in SolverNodes |->
       AdjacencyDatabase(
         n,
         {[SolverAdjacency(n, y, metrics[q]) EXCEPT
             !.adjLabel = DrainedAdjLabel(n, y, labelling)] :
            <<q, y>> \in {r \in SolverPairs \X SolverNodes :
                            /\ {n, r[2]} = {r[1][1], r[1][2]}
                            /\ n # r[2]
                            /\ metrics[r[1]] > 0}},
         DrainedNodeLabel(n, labelling),
         n \in drained)],
    EmptyMap, {})

DrainedLinkStates ==
  {DrainedLinkState(metrics, shape[1], shape[2]) :
     metrics \in [SolverPairs -> 0..MaxLinkMetric],
     shape \in ((SUBSET SolverNodes) \X {[node |-> "own", adj |-> "none"]})
                 \cup ({{}} \X DrainedLabellings)}

(* c alone advertises the prefix, for SP_ECMP over SR_MPLS.                *)
DrainedSinglePrefixState ==
  [SolverPrefixState(SolverNodes, SvcPrefix,
                     OpenrEntry("SR_MPLS", "SP_ECMP", None),
                     OpenrEntry("SR_MPLS", "SP_ECMP", None))
     EXCEPT ![SvcPrefix] = [n \in {"c"} |-> @[n]]]

DrainedPrefixStates ==
  {DrainedSinglePrefixState} \cup
  {SolverPrefixState(SolverNodes, SvcPrefix, entries[1], entries[2]) :
     entries \in
       {<<OpenrEntry("IP", "SP_ECMP", None), OpenrEntry("IP", "SP_ECMP", None)>>,
        <<OpenrEntry("SR_MPLS", "SP_ECMP", None),
          OpenrEntry("SR_MPLS", "SP_ECMP", None)>>,
        <<OpenrEntry("SR_MPLS", "KSP2_ED_ECMP", None),
          OpenrEntry("SR_MPLS", "KSP2_ED_ECMP", None)>>,
        <<BgpEntry("IP", "SP_ECMP", SvcMv(1, 100, 2)),
          BgpEntry("IP", "SP_ECMP", SvcMv(1, 100, 1))>>,
        <<BgpEntry("SR_MPLS", "SP_ECMP", SvcMv(1, 200, 1)),
          BgpEntry("SR_MPLS", "SP_ECMP", SvcMv(1, 100, 1))>>,
        <<BgpEntry("IP", "SP_ECMP", IgpTaggedMv),
          BgpEntry("IP", "SP_ECMP", IgpTaggedMv)>>,
        <<Ksp2Entry("BGP", SvcMv(1, 100, 2), Some(60000), None),
          Ksp2Entry("BGP", SvcMv(1, 100, 1), Some(60001), None)>>,
        <<Ksp2Entry("BGP", SvcMv(1, 100, 2), None, None),
          Ksp2Entry("BGP", SvcMv(1, 100, 1), None, None)>>}}

DrainedCalls ==
  [fn : {"SpfSolverImpl::buildRouteDb"},
   flags : {f \in SolverFlagSets : ~f.computeLfaPaths},
   myNodeName : SolverNodes, ls : DrainedLinkStates,
   prefixes : DrainedPrefixStates, order : {IterOrder(SolverNodes)}]

DrainedInit ==
  /\ callArgs \in DrainedCalls
  /\ callRet = None
  /\ staticRoutes_ = [l \in {60000} |-> <<StaticNhX>>]
  /\ staticRoutesUpdates_ = << >>
  /\ Constructed(CHOOSE config \in Configs : ~config.eor_time_s)

SpecDrained == DrainedInit /\ [][SolverNext]_vars

-----------------------------------------------------------------------------
-----------------------------------------------------------------------------
(* Decision::processPublication and the perfEvents of the databases.  Each *)
(* step is one publication with one key: the adjacency database of a, b or *)
(* c or the prefix database of b or c, with or without perfEvents.  The    *)
(* perfEvents handed to PendingUpdates with the change are kept with the   *)
(* key/value and the state found.                                          *)

KvStoreEvents == Some(<<"KVSTORE_FLOODED">>)

WithPerfEvents(db, perfEvents) == [db EXCEPT !.perfEvents = perfEvents]

PerfEventsKeyVals ==
  {KeyVal(KvKey("adj:", db.thisNodeName, None),
          AdjValue(WithPerfEvents(db, perfEvents))) :
     db \in {AdjacencyDatabase("a", {AdjAB}, 101, FALSE),
             AdjacencyDatabase("b", {AdjBA}, 102, FALSE),
             AdjacencyDatabase("b", {AdjBA, AdjBC}, 102, FALSE),
             AdjacencyDatabase("c", {AdjCB}, 103, FALSE)},
     perfEvents \in {None, KvStoreEvents}}
    \cup
  {KeyVal(KvKey("prefix:", db.thisNodeName, None),
          PrefixValue(WithPerfEvents(db, perfEvents))) :
     db \in {PrefixDatabase("b", <<LoopbackEntry("b")>>, FALSE),
             PrefixDatabase("b", << >>, FALSE),
             PrefixDatabase("c", <<LoopbackEntry("c")>>, FALSE)},
     perfEvents \in {None, KvStoreEvents}}

PerfEventsUpdate(kv) ==
  /\ aborted = ""
  /\ kvStoreReader = "reading"
  /\ Run(KvStoreUpdatesFiber(
           This, Publication(Some(kDefaultArea), <<kv>>, << >>)))
  /\ callArgs' = [fn |-> "processPublication", kv |-> kv, before |-> This]
  /\ callRet' =
       IF kv.key.marker = "adj:"
       THEN perfEventsWithLinkStateChange(TheValue(kv.value).db)
       ELSE perfEventsWithPrefixStateChange(
              updateNodePrefixDatabase(This, kv.key,
                                       TheValue(kv.value).db).nodePrefixDb)

PerfEventsNext == \E kv \in PerfEventsKeyVals : PerfEventsUpdate(kv)

SpecPerfEvents == PrefixKeysInit /\ [][PerfEventsNext]_vars

-----------------------------------------------------------------------------
(* The event loop after cold start with advertisements that go away: a and *)
(* b announce their adjacency to each other with labels or without any, b  *)
(* and c announce their loopback, and the keys of b and c expire.  Each    *)
(* publication holds one key.                                              *)

AdjABUnlabelled == Adjacency("b", "if_a_b", "if_b_a", 1, 0, "fe80::b")

WithdrawalPublications ==
  {Publication(Some(kDefaultArea), <<KeyVal(KvKey(marker, db.thisNodeName, None), value)>>, << >>) :
     <<marker, db, value>> \in
       {<<"adj:", db, AdjValue(db)>> :
          db \in {AdjacencyDatabase("a", {AdjAB}, 101, FALSE),
                  AdjacencyDatabase("a", {AdjABUnlabelled}, 0, FALSE),
                  AdjacencyDatabase("b", {AdjBA}, 102, FALSE),
                  AdjacencyDatabase("b", {AdjBA}, 0, FALSE)}}
         \cup
       {<<"prefix:", db, PrefixValue(db)>> :
          db \in {PrefixDatabase("b", <<LoopbackEntry("b")>>, FALSE)}}}
    \cup
  {Publication(Some(kDefaultArea), << >>, <<key>>) :
     key \in {KvKey("adj:", "b", None), KvKey("prefix:", "b", None)}}

WithdrawalNext ==
  \/ \E thriftPub \in WithdrawalPublications : KvStoreUpdate(thriftPub)
  \/ Elapse
  \/ ProcessUpdatesTimerFires

SpecWithdrawal == PrefixKeysInit /\ [][WithdrawalNext]_vars

(* Claims.                                                                 *)

DeltaCalled == callArgs.fn = "getRouteDelta" /\ callRet # None

UpdatedPrefixes(delta) ==
  {delta.unicastRoutesToUpdate[i].dest : i \in DOMAIN delta.unicastRoutesToUpdate}

UpdatedLabels(delta) ==
  {delta.mplsRoutesToUpdate[i].topLabel : i \in DOMAIN delta.mplsRoutesToUpdate}

(* C1: applying getRouteDelta(new, old) to old (deletes removed, updates   *)
(* inserted or overwritten) gives exactly new, for the unicast routes and  *)
(* for the MPLS routes.                                                    *)
C1_DeltaRoundTrip ==
  DeltaCalled =>
    LET delta == TheValue(callRet)
    IN /\ ApplyUnicastDelta(ThriftUnicast(callArgs.oldDb), delta)
            = ThriftUnicast(callArgs.newDb)
       /\ ApplyMplsDelta(ThriftMpls(callArgs.oldDb), delta)
            = ThriftMpls(callArgs.newDb)

(* A delta with updates and deletes of both kinds has been computed.       *)
C1_Witness ==
  /\ DeltaCalled
  /\ LET delta == TheValue(callRet)
     IN /\ delta.unicastRoutesToUpdate # << >>
        /\ delta.unicastRoutesToDelete # << >>
        /\ delta.mplsRoutesToUpdate # << >>
        /\ delta.mplsRoutesToDelete # << >>
        /\ \E p \in DOMAIN callArgs.oldDb.unicastEntries :
             p \in UpdatedPrefixes(delta)

(* C2: a key is under update iff it is in new and absent from old or of a  *)
(* different entry there, under delete iff it is in old and not in new; no *)
(* key is in both lists, and equal databases give an empty delta.          *)
C2_DiffRule ==
  DeltaCalled =>
    LET delta == TheValue(callRet)
        new == callArgs.newDb
        old == callArgs.oldDb
    IN /\ \A p \in DeltaPrefixes :
            /\ p \in UpdatedPrefixes(delta) <=>
                 /\ p \in DOMAIN new.unicastEntries
                 /\ \/ p \notin DOMAIN old.unicastEntries
                    \/ old.unicastEntries[p] # new.unicastEntries[p]
            /\ p \in SeqToSet(delta.unicastRoutesToDelete) <=>
                 p \in DOMAIN old.unicastEntries \ DOMAIN new.unicastEntries
       /\ \A l \in DeltaLabels :
            /\ l \in UpdatedLabels(delta) <=>
                 /\ l \in DOMAIN new.mplsEntries
                 /\ \/ l \notin DOMAIN old.mplsEntries
                    \/ old.mplsEntries[l] # new.mplsEntries[l]
            /\ l \in SeqToSet(delta.mplsRoutesToDelete) <=>
                 l \in DOMAIN old.mplsEntries \ DOMAIN new.mplsEntries
       /\ UpdatedPrefixes(delta) \cap SeqToSet(delta.unicastRoutesToDelete) = {}
       /\ UpdatedLabels(delta) \cap SeqToSet(delta.mplsRoutesToDelete) = {}
       /\ (new = old => delta = EmptyDelta)

(* The delta of two databases that share an equal entry, a changed entry   *)
(* and differ in their key sets has been computed.                         *)
C2_Witness ==
  /\ DeltaCalled
  /\ LET new == callArgs.newDb
         old == callArgs.oldDb
     IN /\ \E p \in DOMAIN new.unicastEntries \cap DOMAIN old.unicastEntries :
             new.unicastEntries[p] = old.unicastEntries[p]
        /\ \E l \in DOMAIN new.mplsEntries \cap DOMAIN old.mplsEntries :
             new.mplsEntries[l] # old.mplsEntries[l]
        /\ DOMAIN old.unicastEntries \ DOMAIN new.unicastEntries # {}
        /\ DOMAIN new.mplsEntries \ DOMAIN old.mplsEntries # {}

StaticProcessed == callArgs.fn = "processStaticRouteUpdates"

(* The queued static-route operations in arrival order: of each delta its  *)
(* updates, then its deletes.                                              *)
RECURSIVE StaticOps(_)
StaticOps(deltas) ==
  IF deltas = << >> THEN << >>
  ELSE LET d == Head(deltas)
       IN [i \in DOMAIN d.mplsRoutesToUpdate |->
             [op |-> "update", label |-> d.mplsRoutesToUpdate[i].topLabel,
              route |-> Some(d.mplsRoutesToUpdate[i])]]
          \o [i \in DOMAIN d.mplsRoutesToDelete |->
                [op |-> "delete", label |-> d.mplsRoutesToDelete[i],
                 route |-> None]]
          \o StaticOps(Tail(deltas))

RECURSIVE ApplyStaticOps(_, _)
ApplyStaticOps(table, ops) ==
  IF ops = << >> THEN table
  ELSE LET o == Head(ops)
       IN ApplyStaticOps(
            IF o.op = "update"
            THEN MapPut(table, o.label, TheValue(o.route).nextHops)
            ELSE MapErase(table, o.label),
            Tail(ops))

StaticOpLabels(ops) == {ops[i].label : i \in DOMAIN ops}

LastStaticOp(ops, label) ==
  ops[CHOOSE i \in DOMAIN ops :
        /\ ops[i].label = label
        /\ \A j \in DOMAIN ops : ops[j].label = label => j <= i]

(* C7: processStaticRouteUpdates leaves staticRoutes_ as if the queued     *)
(* deltas had been applied one after another; per label the last queued    *)
(* operation decides; the returned delta carries exactly the surviving     *)
(* updates and deletes; the queue is empty afterwards.                     *)
C7_StaticSquash ==
  StaticProcessed =>
    LET ops == StaticOps(callArgs.updates)
        labels == StaticOpLabels(ops)
        survivingUpdates ==
          {TheValue(LastStaticOp(ops, l).route) :
             l \in {x \in labels : LastStaticOp(ops, x).op = "update"}}
        survivingDeletes == {l \in labels : LastStaticOp(ops, l).op = "delete"}
    IN /\ staticRoutes_ = ApplyStaticOps(callArgs.staticRoutes, ops)
       /\ staticRoutesUpdates_ = << >>
       /\ \A l \in labels :
            IF LastStaticOp(ops, l).op = "update"
            THEN /\ l \in DOMAIN staticRoutes_
                 /\ staticRoutes_[l] = TheValue(LastStaticOp(ops, l).route).nextHops
            ELSE l \notin DOMAIN staticRoutes_
       /\ IF labels = {}
          THEN callRet = None
          ELSE /\ callRet # None
               /\ SeqToSet(TheValue(callRet).mplsRoutesToUpdate) = survivingUpdates
               /\ Len(TheValue(callRet).mplsRoutesToUpdate)
                    = Cardinality(survivingUpdates)
               /\ SeqToSet(TheValue(callRet).mplsRoutesToDelete) = survivingDeletes
               /\ Len(TheValue(callRet).mplsRoutesToDelete)
                    = Cardinality(survivingDeletes)

(* Two queued deltas were squashed in which a later update cancelled an    *)
(* earlier delete and replaced an earlier update.                          *)
C7_Witness ==
  /\ StaticProcessed
  /\ Len(callArgs.updates) = 2
  /\ LET ops == StaticOps(callArgs.updates)
     IN \E i, j, k \in DOMAIN ops :
          /\ i < j /\ j < k
          /\ ops[i].label = ops[j].label /\ ops[j].label = ops[k].label
          /\ ops[i].op = "update" /\ ops[j].op = "delete" /\ ops[k].op = "update"
          /\ ops[i].route # ops[k].route
          /\ ops[k].label \in DOMAIN callArgs.staticRoutes

-----------------------------------------------------------------------------
(* The handlers of the event loop.                                         *)

(* The positions in the pushes of the last handler that hold a route delta. *)
RoutePushes ==
  {i \in DOMAIN routeUpdatesQueue_ : routeUpdatesQueue_[i].kind = "route"}

(* The routes the reader of the queue would hold if it held routeDb_.      *)
ThriftRoutes(routeDb) ==
  [unicast |-> ThriftUnicast(routeDb), mpls |-> ThriftMpls(routeDb)]

C4_ColdStartSuppresses ==
  [][coldStartTimer_' =>
       /\ routeUpdatesQueue_' = << >>
       /\ routeDb_' = routeDb_
       /\ fibRoutes' = fibRoutes
       /\ pendingUpdates_ => pendingUpdates_'
       /\ Len(staticRoutesUpdates_') >= Len(staticRoutesUpdates_)
       /\ staticRoutes_' = staticRoutes_]_vars

(* The debounce timer fired during cold start with an update pending and   *)
(* with routes to publish: nothing was pushed, the update is still         *)
(* pending and the LSDB holds what the publications brought.               *)
C4_Witness ==
  /\ coldStartTimer_
  /\ callArgs.fn = "processPendingUpdates"
  /\ callArgs.needsRouteUpdate
  /\ pendingUpdates_
  /\ routeUpdatesQueue_ = << >>
  /\ routeDb_ = EmptyRouteDb
  /\ areaLinkStates_ # EmptyMap
  /\ prefixState_ # EmptyMap
  /\ buildRouteDb(This) # None

(* C5: after the KvStore reader has handled a publication that leaves an   *)
(* update pending, and after the static-route reader has taken a delta,    *)
(* the debounce timer is scheduled and no CHECK has failed.                *)
C5_DebounceTimerArmed ==
  (\/ callArgs.fn = "KvStoreUpdatesFiber" /\ pendingUpdates_
   \/ callArgs.fn = "StaticRoutesUpdateFiber") =>
    /\ processUpdatesTimer_ # None
    /\ aborted = ""

(* C6: when the debounce timer fires for a burst of notifications that     *)
(* began after cold start and whose last one came within minDur of the     *)
(* first, and there are routes to publish, the fire pushes exactly one     *)
(* route delta, no earlier than minDur and no later than maxDur after the  *)
(* first notification.                                                     *)
C6_DebounceOnce ==
  (/\ callArgs.fn = "processPendingUpdates"
   /\ callArgs.burst # None
   /\ TheValue(callArgs.burst).last <= debounceMinDur
   /\ buildRouteDb(This) # None) =>
    /\ Cardinality(RoutePushes) = 1
    /\ TheValue(callArgs.burst).age >= debounceMinDur
    /\ TheValue(callArgs.burst).age <= debounceMaxDur

(* What a debounce fire outside cold start with queued static-route deltas *)
(* has to leave, given the state it started from: the pushes in order and  *)
(* the route database, both computed from the updated static routes.       *)
StaticFirstOutcome(before) ==
  Bind([static \in {processStaticRouteUpdates(before.staticRoutes_,
                                              before.staticRoutesUpdates_)} |->
    Bind([rebuilt \in
            {buildRouteDb([before EXCEPT
                             !.staticRoutes_ = static.staticRoutes])} |->
      Bind([newDb \in
              {IF rebuilt = None THEN before.routeDb_
               ELSE applyRibPolicy(before.ribPolicy_, TheValue(rebuilt))} |->
        [staticRoutes |-> static.staticRoutes,
         routeDb |-> newDb,
         pushes |->
           (IF static.ret = None THEN << >>
            ELSE <<StaticDeltaPush(TheValue(static.ret))>>)
           \o (IF rebuilt = None THEN << >>
               ELSE <<RouteDeltaPush(
                        [getRouteDelta(newDb, before.routeDb_) EXCEPT
                           !.thisNodeName = MyNodeName])>>)]])])])

(* C8: a debounce fire outside cold start that finds static-route deltas   *)
(* queued applies their squash to staticRoutes_, empties the queue, pushes *)
(* the static-route delta first, and then rebuilds from the updated static *)
(* routes and pushes the route delta, also when no LSDB change is pending. *)
C8_StaticFirst ==
  [][(/\ callArgs'.fn = "processPendingUpdates"
      /\ ~coldStartTimer_
      /\ staticRoutesUpdated(staticRoutesUpdates_)) =>
       Bind([outcome \in {StaticFirstOutcome(This)} |->
         /\ staticRoutes_' = outcome.staticRoutes
         /\ staticRoutesUpdates_' = << >>
         /\ Len(routeUpdatesQueue_') = Len(outcome.pushes)
         /\ \A i \in DOMAIN outcome.pushes :
              /\ routeUpdatesQueue_'[i].kind = outcome.pushes[i].kind
              /\ routeUpdatesQueue_'[i].delta = outcome.pushes[i].delta
         /\ routeDb_' = outcome.routeDb])]_vars

(* A fire with no LSDB change pending pushed the static-route delta and    *)
(* then a route delta that programs the static next hop.                   *)
C8_Witness ==
  /\ callArgs.fn = "processPendingUpdates"
  /\ ~callArgs.needsRouteUpdate
  /\ ~coldStartTimer_
  /\ Len(routeUpdatesQueue_) = 2
  /\ routeUpdatesQueue_[1].kind = "static"
  /\ routeUpdatesQueue_[2].kind = "route"
  /\ \E i \in DOMAIN routeUpdatesQueue_[2].delta.unicastRoutesToUpdate :
       \E nh \in routeUpdatesQueue_[2].delta.unicastRoutesToUpdate[i].nextHops :
         nh.address = StaticNhX.address

(* C9: a setRibPolicy whose TTL left is zero or less changes neither the   *)
(* policy held, nor its timer, nor routeDb_, and pushes nothing; a policy  *)
(* held was accepted with a TTL above zero; an accepted policy is the one  *)
(* policy held afterwards.                                                 *)
C9_StaleRejected ==
  [][/\ (callArgs'.fn = "setRibPolicy" /\ callArgs'.durationLeft <= 0) =>
          /\ ribPolicy_' = ribPolicy_
          /\ ribPolicyTimer_' = ribPolicyTimer_
          /\ routeDb_' = routeDb_
          /\ routeUpdatesQueue_' = << >>
          /\ fibRoutes' = fibRoutes
     /\ ribPolicy_' # None => TheValue(ribPolicy_').ttl > 0
     /\ (callArgs'.fn = "setRibPolicy" /\ callRet' = Some("done")) =>
          ribPolicy_' = Some([policy |-> callArgs'.ribPolicy,
                              ttl |-> callArgs'.durationLeft,
                              active |-> TRUE])
     /\ Cardinality(ribPolicy_') <= 1]_vars

(* A valid policy came stale, after cold start, while an expired policy    *)
(* was held and routes were published: the expired policy is still held.   *)
C9_Witness ==
  /\ callArgs.fn = "setRibPolicy"
  /\ callArgs.durationLeft <= 0
  /\ RibPolicyIsValid(callArgs.ribPolicy)
  /\ config_.enable_rib_policy
  /\ ~coldStartTimer_
  /\ ribPolicy_ # None
  /\ ~TheValue(ribPolicy_).active
  /\ DOMAIN routeDb_.unicastEntries # {}

(* C10: every setRibPolicy is answered with success or with an OpenrError  *)
(* that says why it failed (disabled, invalid, stale), and the event loop  *)
(* runs on.                                                                *)
C10_TypedReply ==
  callArgs.fn = "setRibPolicy" =>
    /\ callRet \in {Some("done"),
                    Some("OpenrError: RibPolicy feature is not enabled"),
                    Some("OpenrError: invalid policy"),
                    Some("OpenrError: stale policy")}
    /\ aborted = ""

PolicyAccepted == callArgs.fn = "setRibPolicy" /\ callRet = Some("done")

(* The policy timer has just fired and, unless cold start still holds the  *)
(* routes back or there are none, what is published is the route database  *)
(* computed without the policy.                                            *)
PolicyExpiryPublished ==
  /\ callArgs.fn = "RibPolicyTimerCallback"
  /\ ~ribPolicyTimer_
  /\ \/ coldStartTimer_
     \/ Bind([computed \in {buildRouteDb(This)} |->
          \/ computed = None
          \/ /\ routeDb_ = TheValue(computed)
             /\ fibRoutes = ThriftRoutes(routeDb_)])

(* C11: once a policy is held with its timer scheduled, the timer fires    *)
(* and the routes are published as computed without the policy, unless     *)
(* policies keep being accepted in its place.                              *)
C11_PolicyExpires ==
  (ribPolicyTimer_ ~> PolicyExpiryPublished) \/ []<>PolicyAccepted

(* The prefixes of a computed route database whose entry the policy leaves *)
(* without next hops.                                                      *)
EmptiedByPolicy(ribPolicy, computed) ==
  {p \in DOMAIN computed.unicastEntries :
     applyAction(TheValue(ribPolicy).policy.statements,
                 computed.unicastEntries[p]).nexthops = {}}

(* C12: when a handler pushes a route delta while a policy is active, a    *)
(* prefix whose computed entry the policy leaves without next hops is not  *)
(* among the delta's updates, is among its deletes exactly when routeDb_   *)
(* held it before, and is not in routeDb_ afterwards.                      *)
C12_EmptiedEntryDropped ==
  [][(/\ RoutePushes' # {}
      /\ ribPolicy_' # None
      /\ TheValue(ribPolicy_').active) =>
       Bind([computed \in {buildRouteDb(This')} |->
         computed # None =>
           \A p \in EmptiedByPolicy(ribPolicy_', TheValue(computed)) :
             \A i \in RoutePushes' :
               /\ p \notin UpdatedPrefixes(routeUpdatesQueue_'[i].delta)
               /\ p \in SeqToSet(routeUpdatesQueue_'[i].delta.unicastRoutesToDelete)
                    <=> p \in DOMAIN routeDb_.unicastEntries
               /\ p \notin DOMAIN routeDb_'.unicastEntries])]_vars

(* A policy was accepted that leaves the published anycast route without   *)
(* next hops: the delta pushed deletes the route and routeDb_ lost it.     *)
C12_Witness ==
  /\ PolicyAccepted
  /\ ~coldStartTimer_
  /\ Len(routeUpdatesQueue_) = 1
  /\ routeUpdatesQueue_[1].kind = "route"
  /\ AnycastPrefix \in SeqToSet(routeUpdatesQueue_[1].delta.unicastRoutesToDelete)
  /\ AnycastPrefix \notin DOMAIN routeDb_.unicastEntries
  /\ buildRouteDb(This) # None
  /\ AnycastPrefix \in EmptiedByPolicy(ribPolicy_, TheValue(buildRouteDb(This)))


(* C13: when the cold-start timer has expired and no route database can be *)
(* computed, coldStartUpdate has gone on running, has pushed exactly one   *)
(* delta, which has no update and no delete, and routeDb_ is empty.        *)
C13_ColdStartWithoutRoutes ==
  (callArgs.fn = "coldStartUpdate" /\ buildRouteDb(This) = None) =>
    /\ aborted = ""
    /\ Len(routeUpdatesQueue_) = 1
    /\ routeUpdatesQueue_[1].kind = "route"
    /\ routeUpdatesQueue_[1].delta.unicastRoutesToUpdate = << >>
    /\ routeUpdatesQueue_[1].delta.unicastRoutesToDelete = << >>
    /\ routeUpdatesQueue_[1].delta.mplsRoutesToUpdate = << >>
    /\ routeUpdatesQueue_[1].delta.mplsRoutesToDelete = << >>
    /\ routeDb_ = EmptyRouteDb


(* SpfSolverImpl::buildRouteDb, for every node of every network.           *)

SolverCalled == callArgs.fn = "SpfSolverImpl::buildRouteDb" /\ callRet # None

BuiltRouteDb == TheValue(TheValue(callRet))

Unreachable == 100 * MaxLinkMetric

(* The metric of the cheapest walk of at most hops links from x to y over  *)
(* the links that are up and through no overloaded node, Unreachable when  *)
(* there is none.                                                          *)
RECURSIVE DistWithin(_, _, _, _)
DistWithin(ls, x, y, hops) ==
  IF x = y THEN 0
  ELSE IF hops = 0 THEN Unreachable
  ELSE SetMin({Unreachable} \cup
              {getMetricFromNode(l, x)
                 + DistWithin(ls, getOtherNodeName(l, x), y, hops - 1) :
                 l \in {k \in linksFromNode(ls, x) :
                          /\ isUp(k)
                          /\ \/ getOtherNodeName(k, x) = y
                             \/ ~isNodeOverloaded(ls, getOtherNodeName(k, x))}})

Dist(x, y) ==
  DistWithin(callArgs.ls, x, y, Cardinality(DOMAIN callArgs.ls.adjDbs))

Reachable(x, y) == Dist(x, y) < Unreachable

Advertisers(p) == DOMAIN callArgs.prefixes[p]

ReachableAdvertisers(p) ==
  {n \in Advertisers(p) : Reachable(callArgs.myNodeName, n)}

HasBgp(p) == \E n \in Advertisers(p) : callArgs.prefixes[p][n].type = "BGP"

MixedTypes(p) ==
  HasBgp(p) /\ \E n \in Advertisers(p) : callArgs.prefixes[p][n].type # "BGP"

MissingMv(p) ==
  \E n \in Advertisers(p) :
    callArgs.prefixes[p][n].type = "BGP" /\ callArgs.prefixes[p][n].mv = None

UsesKsp2(p) ==
  \A n \in Advertisers(p) :
    callArgs.prefixes[p][n].forwardingAlgorithm # "SP_ECMP"

(* The metric vector best-path selection compares for advertiser n.        *)
ComparedVector(p, n) ==
  IF callArgs.flags.bgpUseIgpMetric
  THEN [TheValue(callArgs.prefixes[p][n].mv) EXCEPT !.metrics =
          Append(@, createMetricEntity(
                      OPENR_IGP_COST, OPENR_IGP_COST_PRIORITY,
                      "WIN_IF_NOT_PRESENT", FALSE,
                      <<0 - Dist(callArgs.myNodeName, n)>>))]
  ELSE TheValue(callArgs.prefixes[p][n].mv)

(* Two reachable BGP advertisers of p compare as TIE or ERROR.             *)
TieOrError(p) ==
  /\ HasBgp(p) /\ ~MixedTypes(p) /\ ~MissingMv(p)
  /\ \E n, m \in ReachableAdvertisers(p) :
       /\ n # m
       /\ compareMetricVectors(ComparedVector(p, n), ComparedVector(p, m))
            \in {"TIE", "ERROR"}

(* The reachable advertisers no other reachable advertiser beats.          *)
BestAdvertisers(p) ==
  {n \in ReachableAdvertisers(p) :
     \A m \in ReachableAdvertisers(p) \ {n} :
       compareMetricVectors(ComparedVector(p, n), ComparedVector(p, m))
         # "LOOSER"}

SelfOriginated(p) ==
  /\ callArgs.myNodeName \in Advertisers(p)
  /\ \/ ~HasBgp(p)
     \/ /\ ~MixedTypes(p) /\ ~MissingMv(p)
        /\ callArgs.myNodeName \in BestAdvertisers(p)

V4Disabled(p) == p.v4 /\ ~callArgs.flags.enableV4

IncompatibleForwarding(p) ==
  /\ UsesKsp2(p)
  /\ \E n \in Advertisers(p) :
       callArgs.prefixes[p][n].forwardingType # "SR_MPLS"

(* The advertisers the routes go to: all of them, or the best BGP ones.    *)
SelectedAdvertisers(p) ==
  IF HasBgp(p) THEN BestAdvertisers(p) ELSE Advertisers(p)

(* Path b runs over the links of path a, one after the other.              *)
RunsOver(b, a) ==
  \E i \in 1..(Len(b) - Len(a) + 1) : SubSeq(b, i, i + Len(a) - 1) = a

FirstPathsOf(p) ==
  UNION {getKthPaths(callArgs.ls, callArgs.myNodeName, m, 1) :
           m \in SelectedAdvertisers(p) \ {callArgs.myNodeName}}

SecondPathsOf(p) ==
  UNION {getKthPaths(callArgs.ls, callArgs.myNodeName, m, 2) :
           m \in SelectedAdvertisers(p)}

(* The paths KSP2 is to use: the shortest ones and the second-shortest     *)
(* ones that run over none of the shortest.                                *)
PathsToUse(p) ==
  FirstPathsOf(p) \cup
    {sec \in SecondPathsOf(p) : \A first \in FirstPathsOf(p) : ~RunsOver(sec, first)}

(* A selected advertiser asks for more next hops than there are paths.     *)
MinNexthopFailure(p) ==
  /\ UsesKsp2(p)
  /\ \E n \in SelectedAdvertisers(p) :
       /\ callArgs.prefixes[p][n].minNexthop # None
       /\ TheValue(callArgs.prefixes[p][n].minNexthop) >
            Cardinality(PathsToUse(p))

UnreachableSet(p) == ReachableAdvertisers(p) = {}

(* A best BGP advertiser of an SP_ECMP prefix advertises no loopback       *)
(* address of the prefix's family.                                         *)
MissingLoopback(p) ==
  /\ HasBgp(p) /\ ~MixedTypes(p) /\ ~MissingMv(p) /\ ~UsesKsp2(p)
  /\ \E n \in BestAdvertisers(p) :
       ~\E q \in DOMAIN callArgs.prefixes :
          /\ n \in DOMAIN callArgs.prefixes[q]
          /\ callArgs.prefixes[q][n].type = "LOOPBACK"
          /\ q.v4 = p.v4
          /\ isHostPrefix(q)

ListedSkip(p) ==
  \/ SelfOriginated(p)
  \/ MixedTypes(p)
  \/ MissingMv(p)
  \/ IncompatibleForwarding(p)
  \/ MinNexthopFailure(p)
  \/ UnreachableSet(p)
  \/ V4Disabled(p)

HasOneEntry(p) ==
  /\ p \in DOMAIN BuiltRouteDb.unicastEntries
  /\ BuiltRouteDb.unicastEntries[p].prefix = p

LinksOfNextHop(nh, isV4) ==
  {l \in linksFromNode(callArgs.ls, callArgs.myNodeName) :
     /\ isUp(l)
     /\ nh.ifName = Some(getIfaceFromNode(l, callArgs.myNodeName))
     /\ nh.address = IF isV4 THEN getNhV4FromNode(l, callArgs.myNodeName)
                     ELSE getNhV6FromNode(l, callArgs.myNodeName)}

(* The distance to the nearest selected advertiser of p.                   *)
MinDist(p) ==
  SetMin({Dist(callArgs.myNodeName, dst) : dst \in SelectedAdvertisers(p)})

(* C15: with LFA disabled, every next hop of every SP_ECMP unicast entry   *)
(* goes over an up link to a neighbour that lies on a shortest path to a   *)
(* nearest selected advertiser: the link's metric plus the neighbour's     *)
(* distance to that advertiser is the distance from the computing node,    *)
(* and the next hop's metric is that distance.                             *)
C15_ShortestPathNextHops ==
  (SolverCalled /\ ~callArgs.flags.computeLfaPaths) =>
    \A p \in DOMAIN BuiltRouteDb.unicastEntries :
      ~UsesKsp2(p) =>
        \A nh \in BuiltRouteDb.unicastEntries[p].nexthops :
          \E l \in LinksOfNextHop(nh, p.v4) :
            \E dst \in SelectedAdvertisers(p) :
              /\ Dist(callArgs.myNodeName, dst) = MinDist(p)
              /\ getMetricFromNode(l, callArgs.myNodeName)
                   + Dist(getOtherNodeName(l, callArgs.myNodeName), dst)
                   = Dist(callArgs.myNodeName, dst)
              /\ nh.metric = MinDist(p)

(* Equal-cost paths: with LFA disabled, b and c are equally far from a and *)
(* the entry of their prefix has a next hop over each of the links of a.   *)
C15_Witness ==
  /\ SolverCalled
  /\ ~callArgs.flags.computeLfaPaths
  /\ callArgs.myNodeName = "a"
  /\ SvcPrefix \in DOMAIN BuiltRouteDb.unicastEntries
  /\ ~UsesKsp2(SvcPrefix)
  /\ Cardinality(BuiltRouteDb.unicastEntries[SvcPrefix].nexthops) = 2
  /\ Dist("a", "b") = 2
  /\ Dist("a", "c") = 2


(* The destinations of p that make neighbour h over link l loop-free.      *)
LoopFreeVia(p, l) ==
  {d \in SelectedAdvertisers(p) :
     Dist(getOtherNodeName(l, callArgs.myNodeName), d)
       < Dist(callArgs.myNodeName, d)
           + getMetricFromNode(l, callArgs.myNodeName)}

PerDestination(p) ==
  \A n \in Advertisers(p) : callArgs.prefixes[p][n].forwardingType = "SR_MPLS"

(* The MPLS action of a next hop over l that is meant for destination d.   *)
ActionTowards(l, d) ==
  IF d = getOtherNodeName(l, callArgs.myNodeName) THEN None
  ELSE Some(createMplsAction("PUSH", None,
              Some(<<callArgs.ls.adjDbs[d].nodeLabel>>)))

(* C16: with LFA enabled, every next hop of every SP_ECMP unicast entry    *)
(* goes over an up link to a neighbour h from which some destination d of  *)
(* the prefix is nearer than from here plus the link: dist(h, d) <         *)
(* dist(me, d) + metric(me, h).  When the destinations share one key, the  *)
(* distance recorded for h, the next hop's metric less the link's, is the  *)
(* smallest such dist(h, d); with a key per destination it is dist(h, d)   *)
(* of the destination the next hop is for.                                 *)
C16_LoopFreeNextHops ==
  (SolverCalled /\ callArgs.flags.computeLfaPaths) =>
    \A p \in DOMAIN BuiltRouteDb.unicastEntries :
      ~UsesKsp2(p) =>
        \A nh \in BuiltRouteDb.unicastEntries[p].nexthops :
          \E l \in LinksOfNextHop(nh, p.v4) :
            /\ LoopFreeVia(p, l) # {}
            /\ IF PerDestination(p)
               THEN \E d \in LoopFreeVia(p, l) :
                      /\ nh.mplsAction = ActionTowards(l, d)
                      /\ nh.metric - getMetricFromNode(l, callArgs.myNodeName)
                           = Dist(getOtherNodeName(l, callArgs.myNodeName), d)
               ELSE nh.metric - getMetricFromNode(l, callArgs.myNodeName)
                      = SetMin({Dist(getOtherNodeName(l, callArgs.myNodeName), d) :
                                  d \in LoopFreeVia(p, l)})

(* With LFA enabled, the entry of the prefix of b and c has a next hop     *)
(* that is on no shortest path, over a link whose neighbour is loop-free   *)
(* for both destinations, at different distances.                          *)
C16_Witness ==
  /\ SolverCalled
  /\ callArgs.flags.computeLfaPaths
  /\ SvcPrefix \in DOMAIN BuiltRouteDb.unicastEntries
  /\ ~UsesKsp2(SvcPrefix)
  /\ ~PerDestination(SvcPrefix)
  /\ \E nh \in BuiltRouteDb.unicastEntries[SvcPrefix].nexthops :
       /\ nh.metric > MinDist(SvcPrefix)
       /\ \E l \in LinksOfNextHop(nh, FALSE) :
            /\ LoopFreeVia(SvcPrefix, l) = {"b", "c"}
            /\ Dist(getOtherNodeName(l, callArgs.myNodeName), "b")
                 # Dist(getOtherNodeName(l, callArgs.myNodeName), "c")


(* The selected advertisers of a KSP2 prefix whose entry was built, as     *)
(* selectKsp2 is given them.                                               *)
Ksp2Kept(p) ==
  Ksp2Paths(callArgs.myNodeName,
            [BestPathCalResult EXCEPT !.nodes = SelectedAdvertisers(p),
                                      !.success = TRUE],
            callArgs.ls)

(* C17: of the paths selectKsp2 keeps for a prefix, no second-shortest     *)
(* path to any of its destinations runs over the links of a shortest path  *)
(* to any of its destinations, and every shortest path to a destination    *)
(* other than the computing node is kept.                                  *)
C17_Ksp2PathsDisjoint ==
  SolverCalled =>
    \A p \in DOMAIN callArgs.prefixes :
      (UsesKsp2(p) /\ ~MixedTypes(p) /\ ~MissingMv(p)) =>
        /\ \A sec \in Ksp2Kept(p).second :
             /\ sec \in SecondPathsOf(p)
             /\ \A first \in FirstPathsOf(p) : ~RunsOver(sec, first)
        /\ Ksp2Kept(p).first = FirstPathsOf(p)
        /\ (p \in DOMAIN BuiltRouteDb.unicastEntries =>
              Cardinality(BuiltRouteDb.unicastEntries[p].nexthops)
                <= Cardinality(PathsToUse(p)))

(* The full mesh with b and c advertising a KSP2 prefix: from a, each      *)
(* second-shortest path runs over a shortest one and is dropped, and the   *)
(* entry has the two shortest paths only.                                  *)
C17_Witness ==
  /\ SolverCalled
  /\ callArgs.myNodeName = "a"
  /\ SvcPrefix \in DOMAIN BuiltRouteDb.unicastEntries
  /\ UsesKsp2(SvcPrefix)
  /\ Cardinality(FirstPathsOf(SvcPrefix)) = 2
  /\ Cardinality(SecondPathsOf(SvcPrefix)) = 2
  /\ Ksp2Kept(SvcPrefix).second = {}
  /\ Cardinality(BuiltRouteDb.unicastEntries[SvcPrefix].nexthops) = 2


NodeLabelOf(n) == callArgs.ls.adjDbs[n].nodeLabel

(* The MPLS entry is the route of label towards node x: it has next hops,  *)
(* each over an up link to a neighbour h, with the metric of the way over  *)
(* h to x, which is a shortest way unless LFA is enabled, popping the      *)
(* label when h is x and swapping it otherwise.                            *)
EntryTowards(entry, label, x) ==
  /\ entry.nexthops # {}
  /\ \A nh \in entry.nexthops :
       \E l \in LinksOfNextHop(nh, FALSE) :
         /\ nh.metric = getMetricFromNode(l, callArgs.myNodeName)
                          + Dist(getOtherNodeName(l, callArgs.myNodeName), x)
         /\ callArgs.flags.computeLfaPaths
              \/ nh.metric = Dist(callArgs.myNodeName, x)
         /\ nh.mplsAction =
              IF getOtherNodeName(l, callArgs.myNodeName) = x
              THEN Some(createMplsAction("PHP", None, None))
              ELSE Some(createMplsAction("SWAP", Some(label), None))

(* C18: when two nodes other than the computing one advertise the same     *)
(* valid non-zero node label and both are reachable, the MPLS entry of the *)
(* label is the route towards the node with the larger name, in whichever  *)
(* order the adjacency databases were visited.                             *)
C18_LargerNodeIdWins ==
  SolverCalled =>
    \A n, m \in DOMAIN callArgs.ls.adjDbs \ {callArgs.myNodeName} :
      (/\ StringLess(n, m)
       /\ NodeLabelOf(n) = NodeLabelOf(m)
       /\ NodeLabelOf(n) # 0
       /\ isMplsLabelValid(NodeLabelOf(n))
       /\ Reachable(callArgs.myNodeName, n)
       /\ Reachable(callArgs.myNodeName, m)) =>
        /\ NodeLabelOf(m) \in DOMAIN BuiltRouteDb.mplsEntries
        /\ EntryTowards(BuiltRouteDb.mplsEntries[NodeLabelOf(m)],
                        NodeLabelOf(m), m)


(* C19: when the computing node advertises a valid non-zero node label,    *)
(* the MPLS entry of that label in the route database built has exactly    *)
(* one next hop, POP_AND_LOOKUP with the zero address, whichever other     *)
(* nodes advertise the same label.                                         *)
C19_OwnLabelPopAndLookup ==
  (/\ SolverCalled
   /\ NodeLabelOf(callArgs.myNodeName) # 0
   /\ isMplsLabelValid(NodeLabelOf(callArgs.myNodeName))) =>
    /\ NodeLabelOf(callArgs.myNodeName) \in DOMAIN BuiltRouteDb.mplsEntries
    /\ \E nh \in BuiltRouteDb.mplsEntries[NodeLabelOf(callArgs.myNodeName)].nexthops :
         /\ BuiltRouteDb.mplsEntries[NodeLabelOf(callArgs.myNodeName)].nexthops = {nh}
         /\ nh.address = "::"
         /\ nh.mplsAction = Some(createMplsAction("POP_AND_LOOKUP", None, None))


(* The route database built from the same link state when p is not         *)
(* advertised.                                                             *)
BuiltWithout(p) ==
  TheValue(SolverBuildRouteDbVisiting(
             callArgs.flags, staticRoutes_, callArgs.myNodeName, callArgs.ls,
             [q \in DOMAIN callArgs.prefixes \ {p} |-> callArgs.prefixes[q]],
             callArgs.order))

(* C20: when two reachable BGP advertisers of a prefix compare as TIE or   *)
(* ERROR, the route database built has no unicast entry for the prefix,    *)
(* whether it is routed by SP_ECMP or by KSP2, and its other entries are   *)
(* those it would have without the prefix.                                 *)
C20_TieOrErrorSkipsPrefix ==
  SolverCalled =>
    \A p \in DOMAIN callArgs.prefixes :
      TieOrError(p) =>
        /\ p \notin DOMAIN BuiltRouteDb.unicastEntries
        /\ BuiltRouteDb = BuiltWithout(p)

(* A TIE between b and c, both reachable from a, for the KSP2 prefix: the  *)
(* prefix has no entry and both loopback addresses have theirs.            *)
C20_Witness ==
  /\ SolverCalled
  /\ callArgs.myNodeName = "a"
  /\ SvcPrefix \in DOMAIN callArgs.prefixes
  /\ UsesKsp2(SvcPrefix)
  /\ TieOrError(SvcPrefix)
  /\ SvcPrefix \notin DOMAIN BuiltRouteDb.unicastEntries
  /\ DOMAIN BuiltRouteDb.unicastEntries = {LoopbackOf("b"), LoopbackOf("c")}

(* SpfSolverImpl::runBestPathSelectionBgp, for every node of every         *)
(* network, every set of BGP advertisers and every order of visiting them. *)

BestPathCalled ==
  callArgs.fn = "SpfSolverImpl::runBestPathSelectionBgp" /\ callRet # None

(* bgpUseIgpMetric is on, every advertiser is reachable, all carry the     *)
(* same metric vector and no two are at the same IGP cost.                 *)
SameVectorOtherCosts ==
  /\ BestPathCalled
  /\ callArgs.flags.bgpUseIgpMetric
  /\ \A n \in DOMAIN callArgs.nodePrefixes :
       /\ Reachable(callArgs.myNodeName, n)
       /\ \A m \in DOMAIN callArgs.nodePrefixes :
            /\ callArgs.nodePrefixes[m].mv = callArgs.nodePrefixes[n].mv
            /\ m # n => Dist(callArgs.myNodeName, m) # Dist(callArgs.myNodeName, n)

NearestAdvertiser ==
  CHOOSE n \in DOMAIN callArgs.nodePrefixes :
    \A m \in DOMAIN callArgs.nodePrefixes :
      Dist(callArgs.myNodeName, n) <= Dist(callArgs.myNodeName, m)

NearestAdvertiserWins ==
  /\ TheValue(callRet).success
  /\ TheValue(callRet).nodes = {NearestAdvertiser}
  /\ TheValue(callRet).bestNode = NearestAdvertiser
  /\ TheValue(callRet).bestIgpMetric =
       Some(Dist(callArgs.myNodeName, NearestAdvertiser))

CarriesIgpCost(n) ==
  \E i \in DOMAIN TheValue(callArgs.nodePrefixes[n].mv).metrics :
    TheValue(callArgs.nodePrefixes[n].mv).metrics[i].type = OPENR_IGP_COST

(* C21, as stated: with bgpUseIgpMetric, reachable BGP advertisers with    *)
(* identical metric vectors and pairwise different IGP costs give a        *)
(* successful selection of the advertiser of smallest IGP cost alone, with *)
(* bestNode that advertiser and bestIgpMetric its cost, in any order.      *)
C21_NearestAdvertiserWins == SameVectorOtherCosts => NearestAdvertiserWins

(* C21, amended: the same for metric vectors that carry no OPENR_IGP_COST  *)
(* entity of their own; advertisers whose vector carries one are ignored,  *)
(* and the selection then succeeds with no node, no bestNode and no        *)
(* bestIgpMetric.                                                          *)
C21_NearestUntaggedAdvertiserWins ==
  SameVectorOtherCosts =>
    IF \E n \in DOMAIN callArgs.nodePrefixes : CarriesIgpCost(n)
    THEN TheValue(callRet) = [BestPathCalResult EXCEPT !.success = TRUE]
    ELSE NearestAdvertiserWins

(* Three advertisers at three different costs, the nearest one visited     *)
(* second, so that it both replaces a farther one and beats a later one.   *)
C21_Witness ==
  /\ SameVectorOtherCosts
  /\ Cardinality(DOMAIN callArgs.nodePrefixes) = 3
  /\ ~CarriesIgpCost(callArgs.myNodeName)
  /\ callArgs.order[2] = NearestAdvertiser
  /\ NearestAdvertiserWins

(* The reader fibers and the closing of their queues.                      *)

QueueReportedClosure ==
  callArgs \in [fn : {"KvStoreUpdatesFiber", "StaticRoutesUpdateFiber"},
                hasError : {TRUE}]

DebounceFired == callArgs.fn = "processPendingUpdates"

(* C22: closing one input queue ends the reader of that queue alone, the   *)
(* other reader and the timers go on, so that a debounce timer armed       *)
(* before the closure still fires and processes what is pending.           *)
C22_ArmedTimerFiresAfterClosure ==
  (QueueReportedClosure /\ processUpdatesTimer_ # None) ~> DebounceFired

(* Decision::processPublication and values that do not deserialize.        *)

PublicationProcessed == callArgs.fn = "processPublication"

Deserializes(kv) ==
  \/ kv.value = None
  \/ kv.key.marker = "adj:" /\ TheValue(kv.value).kind = "AdjacencyDatabase"
  \/ kv.key.marker = "prefix:" /\ TheValue(kv.value).kind = "PrefixDatabase"
  \/ kv.key.marker = "fibtime:" /\ TheValue(kv.value).kind = "int64"

(* The publication without the keys whose value does not deserialize.      *)
DeserializablePart(thriftPub) ==
  [thriftPub EXCEPT !.keyVals = SelectSeq(@, Deserializes)]

(* C23: a key of a publication whose value cannot be deserialized changes  *)
(* nothing and ends nothing: the reader fiber leaves the object, LinkState,*)
(* PrefixState, fibTimes and PendingUpdates with it, as it would have, had *)
(* the publication come without that key: the other keyVals and the        *)
(* expiredKeys are applied, and the process runs on whenever it would have *)
(* run on without the key.                                                 *)
C23_UndeserializableKeySkipped ==
  PublicationProcessed =>
    This = [KvStoreUpdatesFiber(callArgs.before,
                                DeserializablePart(callArgs.thriftPub))
              EXCEPT !.routeUpdatesQueue_ = << >>]

(* A publication with a malformed adjacency value of b, a good prefix      *)
(* database of b and the expired adjacency key of b, arriving when the     *)
(* adjacency database and the FIB time of b are held: the prefixes of b    *)
(* are taken, the adjacency database goes and the FIB time stays.          *)
C23_Witness ==
  /\ PublicationProcessed
  /\ \E i \in DOMAIN callArgs.thriftPub.keyVals :
       /\ ~Deserializes(callArgs.thriftPub.keyVals[i])
       /\ callArgs.thriftPub.keyVals[i].key.marker = "adj:"
       /\ \E j \in DOMAIN callArgs.thriftPub.keyVals :
            j > i /\ callArgs.thriftPub.keyVals[j].key.marker = "prefix:"
  /\ callArgs.thriftPub.expiredKeys = <<KvKey("adj:", "b", None)>>
  /\ kDefaultArea \in DOMAIN callArgs.before.areaLinkStates_
  /\ "b" \in DOMAIN callArgs.before.areaLinkStates_[kDefaultArea].adjDbs
  /\ "b" \notin DOMAIN areaLinkStates_[kDefaultArea].adjDbs
  /\ callArgs.before.prefixState_ # prefixState_
  /\ "b" \in DOMAIN fibTimes_
  /\ aborted = ""

(* KvStoreDb::getNextState over the life of one peer.                      *)

PeerStateTaken ==
  callArgs.fn = "KvStoreDb::getNextState" /\ callArgs.events # << >>

RECURSIVE HopNode(_, _)
HopNode(path, i) ==
  IF i = 0 THEN callArgs.myNodeName
  ELSE getOtherNodeName(path[i], HopNode(path, i - 1))

RECURSIVE MetricOfLinks(_, _)
MetricOfLinks(path, i) ==
  IF i = 0 THEN 0
  ELSE MetricOfLinks(path, i - 1) + getMetricFromNode(path[i], HopNode(path, i - 1))

(* The labels to push for a path to an advertiser of p, bottom first: the  *)
(* destination's prepend label, then the node labels from the destination  *)
(* back to the node after the first hop's neighbour.                       *)
StackFor(p, path) ==
  (IF callArgs.prefixes[p][HopNode(path, Len(path))].prependLabel # None
   THEN <<TheValue(callArgs.prefixes[p][HopNode(path, Len(path))].prependLabel)>>
   ELSE << >>)
    \o [i \in 1..(Len(path) - 1) |-> NodeLabelOf(HopNode(path, Len(path) + 1 - i))]

IsNextHopOf(nh, p, path) ==
  /\ nh.address = (IF p.v4 THEN getNhV4FromNode(path[1], callArgs.myNodeName)
                   ELSE getNhV6FromNode(path[1], callArgs.myNodeName))
  /\ nh.ifName = Some(getIfaceFromNode(path[1], callArgs.myNodeName))
  /\ nh.metric = MetricOfLinks(path, Len(path))
  /\ IF StackFor(p, path) = << >> THEN nh.mplsAction = None
     ELSE /\ nh.mplsAction # None
          /\ TheValue(nh.mplsAction).action = "PUSH"
          /\ TheValue(nh.mplsAction).swapLabel = None
          /\ TheValue(nh.mplsAction).pushLabels = Some(StackFor(p, path))

Ksp2Built(p) ==
  /\ SolverCalled
  /\ p \in DOMAIN callArgs.prefixes
  /\ UsesKsp2(p)
  /\ p \in DOMAIN BuiltRouteDb.unicastEntries

(* C26: every path selectKsp2 keeps for a prefix gives the entry a next    *)
(* hop with the address and the interface of the path's first link, the    *)
(* sum of the metrics of its links, and a PUSH of the node labels of the   *)
(* nodes after the first hop's neighbour over the destination's prepend    *)
(* label, or no MPLS action when there is nothing to push; and the entry   *)
(* has no other next hop over an interface.                                *)
C26_Ksp2NextHopOfPath ==
  \A p \in {SvcPrefix} :
    Ksp2Built(p) =>
      /\ \A path \in PathsToUse(p) :
           \E nh \in BuiltRouteDb.unicastEntries[p].nexthops :
             IsNextHopOf(nh, p, path)
      /\ \A nh \in BuiltRouteDb.unicastEntries[p].nexthops :
           nh.ifName # None => \E path \in PathsToUse(p) : IsNextHopOf(nh, p, path)

(* From a on the line a - b - c with b and c advertising and c carrying a  *)
(* prepend label: the one-link path to b has no MPLS action, the two-link  *)
(* path to c pushes c's prepend label under c's node label.                *)
C26_Witness ==
  /\ Ksp2Built(SvcPrefix)
  /\ callArgs.myNodeName = "a"
  /\ \E one, two \in PathsToUse(SvcPrefix) :
       /\ Len(one) = 1 /\ StackFor(SvcPrefix, one) = << >>
       /\ Len(two) = 2
       /\ StackFor(SvcPrefix, two) = <<60000, NodeLabelOf("c")>>
       /\ \E nh \in BuiltRouteDb.unicastEntries[SvcPrefix].nexthops :
            /\ IsNextHopOf(nh, SvcPrefix, two)
            /\ nh.metric = 2 * MaxLinkMetric



(* selectKsp2: the minNexthop threshold.                                   *)

(* The next hops of p's entry made of paths; those copied from the static  *)
(* MPLS route of the own prepend label have no interface.                  *)
DynamicNextHops(p) ==
  {nh \in BuiltRouteDb.unicastEntries[p].nexthops : nh.ifName # None}

DeclaredThresholds(p, nodes) ==
  {TheValue(callArgs.prefixes[p][n].minNexthop) :
     n \in {m \in nodes : callArgs.prefixes[p][m].minNexthop # None}}

(* The computing node advertises p and p is left out for it: always when   *)
(* p is not a BGP prefix; for a BGP prefix when the node is among the best *)
(* advertisers, unless there is another one and its own entry has a        *)
(* prepend label.                                                          *)
Ksp2SelfSkip(p) ==
  /\ callArgs.myNodeName \in Advertisers(p)
  /\ \/ ~HasBgp(p)
     \/ /\ callArgs.myNodeName \in BestAdvertisers(p)
        /\ ~ /\ Cardinality(BestAdvertisers(p)) > 1
             /\ callArgs.prefixes[p][callArgs.myNodeName].prependLabel # None

(* buildRouteDb takes KSP2 prefix p as far as the paths of selectKsp2.     *)
Ksp2Selecting(p) ==
  /\ SolverCalled
  /\ p \in DOMAIN callArgs.prefixes
  /\ UsesKsp2(p)
  /\ ~MixedTypes(p) /\ ~MissingMv(p) /\ ~V4Disabled(p)
  /\ ~IncompatibleForwarding(p)
  /\ ~TieOrError(p)
  /\ ~Ksp2SelfSkip(p)

SelfAmongBest(p) ==
  /\ SolverCalled
  /\ p \in DOMAIN callArgs.prefixes
  /\ HasBgp(p) /\ ~MixedTypes(p) /\ ~MissingMv(p) /\ ~V4Disabled(p)
  /\ ~TieOrError(p)
  /\ callArgs.myNodeName \in BestAdvertisers(p)

OtherWinnerAndOwnLabel(p) ==
  /\ BestAdvertisers(p) \ {callArgs.myNodeName} # {}
  /\ callArgs.prefixes[p][callArgs.myNodeName].prependLabel # None

(* What getBestAnnouncingNodes answers for prefix p of the call.           *)
AnnouncingNodesOf(p) ==
  getBestAnnouncingNodes(callArgs.flags, callArgs.myNodeName,
                         callArgs.prefixes[p], HasBgp(p), UsesKsp2(p),
                         callArgs.ls)

C28_WitnessSpEcmp ==
  /\ SelfAmongBest(SvcPrefix)
  /\ ~UsesKsp2(SvcPrefix)
  /\ BestAdvertisers(SvcPrefix) = {"b", "c"}
  /\ SvcPrefix \notin DOMAIN BuiltRouteDb.unicastEntries



(* Decision::updateNodePrefixDatabase: the two maps of a node and the      *)
(* database merged from them.                                              *)

PrefixKeyApplied ==
  callArgs.fn = "updateNodePrefixDatabase" /\ callRet # None

MapOfNode(maps, node) == IF node \in DOMAIN maps THEN maps[node] ELSE <<>>

UpdatedNode == callArgs.prefixDb.thisNodeName

PerPrefixNow == MapOfNode(perPrefixPrefixEntries_, UpdatedNode)

FullDbNow == MapOfNode(fullDbPrefixEntries_, UpdatedNode)

PerPrefixBefore ==
  MapOfNode(callArgs.before.perPrefixPrefixEntries_, UpdatedNode)

FullDbBefore == MapOfNode(callArgs.before.fullDbPrefixEntries_, UpdatedNode)

(* The entry the merged database is to have for prefix q.                  *)
MergedEntry(q) ==
  IF q \in DOMAIN PerPrefixNow THEN PerPrefixNow[q] ELSE FullDbNow[q]

(* The entries handed on are those of the prefixes of the two maps, one    *)
(* for each.                                                               *)
OneEntryPerPrefix ==
  \E prefixOf \in [DOMAIN TheValue(callRet).prefixEntries ->
                     DOMAIN PerPrefixNow \cup DOMAIN FullDbNow] :
    /\ \A q \in DOMAIN PerPrefixNow \cup DOMAIN FullDbNow :
         Cardinality({i \in DOMAIN prefixOf : prefixOf[i] = q}) = 1
    /\ \A i \in DOMAIN prefixOf :
         TheValue(callRet).prefixEntries[i] = MergedEntry(prefixOf[i])

(* The last entry of the database for prefix q.                            *)
LastEntryFor(q) ==
  callArgs.prefixDb.prefixEntries[
    SetMax({i \in DOMAIN callArgs.prefixDb.prefixEntries :
              callArgs.prefixDb.prefixEntries[i].prefix = q})]

BareKeyReplacesFullDb ==
  /\ PerPrefixNow = PerPrefixBefore
  /\ DOMAIN FullDbNow =
       {callArgs.prefixDb.prefixEntries[i].prefix :
          i \in DOMAIN callArgs.prefixDb.prefixEntries}
  /\ \A q \in DOMAIN FullDbNow : FullDbNow[q] = LastEntryFor(q)

SuffixedKeyChangesOnePrefix ==
  /\ FullDbNow = FullDbBefore
  /\ \A q \in (DOMAIN PerPrefixNow \cup DOMAIN PerPrefixBefore)
                \ {TheValue(callArgs.key.prefixKey)} :
       /\ q \in DOMAIN PerPrefixNow \cap DOMAIN PerPrefixBefore
       /\ PerPrefixNow[q] = PerPrefixBefore[q]
  /\ IF callArgs.prefixDb.deletePrefix
     THEN TheValue(callArgs.key.prefixKey) \notin DOMAIN PerPrefixNow
     ELSE IF callArgs.prefixDb.prefixEntries = << >>
     THEN DOMAIN PerPrefixNow = DOMAIN PerPrefixBefore
     ELSE /\ TheValue(callArgs.key.prefixKey) \in DOMAIN PerPrefixNow
          /\ PerPrefixNow[TheValue(callArgs.key.prefixKey)]
               = callArgs.prefixDb.prefixEntries[1]

OtherNodesUntouched ==
  \A n \in (DOMAIN perPrefixPrefixEntries_ \cup DOMAIN fullDbPrefixEntries_
              \cup DOMAIN callArgs.before.perPrefixPrefixEntries_
              \cup DOMAIN callArgs.before.fullDbPrefixEntries_)
             \ {UpdatedNode} :
    /\ MapOfNode(perPrefixPrefixEntries_, n)
         = MapOfNode(callArgs.before.perPrefixPrefixEntries_, n)
    /\ MapOfNode(fullDbPrefixEntries_, n)
         = MapOfNode(callArgs.before.fullDbPrefixEntries_, n)

(* C29: after every prefix update, whatever updates came before, the       *)
(* database handed to PrefixState for the node has one entry for each      *)
(* prefix of the node's per-prefix map and full-DB map, the per-prefix     *)
(* entry where both have the prefix, and it is what PrefixState is updated *)
(* with; an update under the bare key makes the full-DB map the entries of *)
(* the database and leaves the per-prefix map alone; an update under a     *)
(* per-prefix key leaves the full-DB map alone and changes the per-prefix  *)
(* map at the prefix of the key only; the maps of other nodes stay.        *)
C29_PerPrefixOverFullDb ==
  PrefixKeyApplied =>
    /\ OneEntryPerPrefix
    /\ TheValue(callRet).thisNodeName = UpdatedNode
    /\ prefixState_ = updatePrefixDatabase(callArgs.before.prefixState_,
                                           TheValue(callRet)).prefixes
    /\ IF callArgs.key.prefixKey = None THEN BareKeyReplacesFullDb
       ELSE SuffixedKeyChangesOnePrefix
    /\ OtherNodesUntouched

(* After a full database with b's loopback and the anycast prefix and a    *)
(* per-prefix update of the loopback, the database handed on has the       *)
(* loopback as the per-prefix key gave it and the anycast prefix of the    *)
(* full database.                                                          *)
C29_Witness ==
  /\ PrefixKeyApplied
  /\ callArgs.key.prefixKey = Some(LoopbackOf("b"))
  /\ DOMAIN FullDbNow = {LoopbackOf("b"), AnycastPrefix}
  /\ DOMAIN PerPrefixNow = {LoopbackOf("b")}
  /\ PerPrefixNow[LoopbackOf("b")] # FullDbNow[LoopbackOf("b")]
  /\ PerPrefixNow[LoopbackOf("b")].prefix = LoopbackOf("b")
  /\ PerPrefixBefore # PerPrefixNow
  /\ Len(TheValue(callRet).prefixEntries) = 2
  /\ \E i \in 1..2 :
       TheValue(callRet).prefixEntries[i] = PerPrefixNow[LoopbackOf("b")]



(* Decision::processPendingUpdates outside cold start.                     *)

(* The step is a run of processPendingUpdates with no cold-start timer.    *)
DebounceRunOutsideColdStart ==
  /\ callArgs'.fn = "processPendingUpdates"
  /\ ~coldStartTimer_
  /\ aborted' = ""

(* The step is a reader fiber taking a notification that asks for routes,  *)
(* with the backoff as reportSuccess left it and no timer armed.           *)
NotificationAfterReset ==
  /\ processUpdatesBackoff_ = reportSuccess(processUpdatesBackoff_)
  /\ processUpdatesTimer_ = None
  /\ ~coldStartTimer_
  /\ aborted' = ""
  /\ \/ callArgs'.fn = "KvStoreUpdatesFiber" /\ pendingUpdates_'
     \/ callArgs'.fn = "StaticRoutesUpdateFiber"

(* C30: a run of processPendingUpdates outside cold start, with or without *)
(* a route database to send, leaves the backoff as reportSuccess sets it,  *)
(* no debounce timer scheduled and no update pending; and a notification   *)
(* that asks for routes, coming while the backoff is so and no timer is    *)
(* armed, arms the timer for the minimum backoff.                          *)
C30_DebounceResetAfterRun ==
  [][/\ DebounceRunOutsideColdStart =>
          /\ processUpdatesBackoff_' = reportSuccess(processUpdatesBackoff_)
          /\ processUpdatesTimer_' = None
          /\ ~pendingUpdates_'
          /\ staticRoutesUpdates_' = << >>
     /\ NotificationAfterReset =>
          /\ processUpdatesTimer_' = Some(debounceMinDur)
          /\ processUpdatesBackoff_' = debounceMinDur]_vars

(* The debounce timer has fired outside cold start for a pending update    *)
(* and there is no route database to send: the backoff is reset and no     *)
(* timer is scheduled all the same.                                        *)
C30_Witness ==
  /\ callArgs.fn = "processPendingUpdates"
  /\ callArgs.needsRouteUpdate
  /\ ~coldStartTimer_
  /\ aborted = ""
  /\ buildRouteDb(This) = None
  /\ routeUpdatesQueue_ = << >>
  /\ processUpdatesBackoff_ = reportSuccess(processUpdatesBackoff_)
  /\ processUpdatesTimer_ = None
  /\ ~pendingUpdates_



(* getBestAnnouncingNodes: overloaded destinations.                        *)

(* The nodes the filter is given: every advertiser of a prefix that is not *)
(* a BGP prefix, the nodes best-path selection chose of one that is.       *)
CandidateNodes(p) ==
  IF HasBgp(p)
  THEN runBestPathSelectionBgp(callArgs.flags, callArgs.myNodeName,
                               callArgs.prefixes[p], callArgs.ls).nodes
  ELSE Advertisers(p)

OverloadedNodes == {n \in SolverNodes : isNodeOverloaded(callArgs.ls, n)}

(* The destinations of p are the candidates that are not overloaded, or    *)
(* all the candidates when every one of them is overloaded.                *)
DrainedFilterApplied(p) ==
  /\ AnnouncingNodesOf(p).nodes =
       IF CandidateNodes(p) \ OverloadedNodes # {}
       THEN CandidateNodes(p) \ OverloadedNodes
       ELSE CandidateNodes(p)
  /\ AnnouncingNodesOf(p).nodes \cap OverloadedNodes # {} =>
       CandidateNodes(p) \subseteq OverloadedNodes

(* C31 as stated: the destination set getBestAnnouncingNodes returns with  *)
(* success is the candidate set without its overloaded nodes, or the whole *)
(* candidate set when all are overloaded, and is never empty.              *)
C31_DestinationsNeverEmpty ==
  \A p \in {SvcPrefix} :
    (SolverCalled /\ AnnouncingNodesOf(p).success) =>
      /\ DrainedFilterApplied(p)
      /\ AnnouncingNodesOf(p).nodes # {}
      /\ CandidateNodes(p) # {}

(* C31, amended: the destination set getBestAnnouncingNodes returns with   *)
(* success is the candidate set without its overloaded nodes, or the whole *)
(* candidate set when all are overloaded; it is empty only when the        *)
(* candidate set is, which happens only for a BGP prefix.                  *)
C31_DestinationsFiltered ==
  \A p \in {SvcPrefix} :
    (SolverCalled /\ AnnouncingNodesOf(p).success) =>
      /\ DrainedFilterApplied(p)
      /\ AnnouncingNodesOf(p).nodes = {} <=> CandidateNodes(p) = {}
      /\ CandidateNodes(p) = {} => HasBgp(p)

(* b and c are the candidates and b is overloaded: c is the destination.   *)
C31_Witness ==
  /\ SolverCalled
  /\ callArgs.myNodeName = "a"
  /\ AnnouncingNodesOf(SvcPrefix).success
  /\ CandidateNodes(SvcPrefix) = {"b", "c"}
  /\ OverloadedNodes = {"b"}
  /\ AnnouncingNodesOf(SvcPrefix).nodes = {"c"}

(* b and c are the candidates and both are overloaded: both stay.          *)
C31_WitnessAllOverloaded ==
  /\ SolverCalled
  /\ AnnouncingNodesOf(SvcPrefix).success
  /\ CandidateNodes(SvcPrefix) = {"b", "c"}
  /\ OverloadedNodes = {"b", "c"}
  /\ AnnouncingNodesOf(SvcPrefix).nodes = {"b", "c"}



(* buildRouteDb: labels that are not set or not valid.                     *)

(* The label is set and fits the 20 bits of an MPLS label.                 *)
UsableLabel(label) == label > 0 /\ label < 1048576

(* The labels the MPLS entries are for: the usable node labels of this     *)
(* node and of the nodes it reaches, and the usable labels of its own      *)
(* adjacencies.                                                            *)
UsableNodeLabels ==
  {NodeLabelOf(n) :
     n \in {m \in SolverNodes :
              /\ UsableLabel(NodeLabelOf(m))
              /\ m = callArgs.myNodeName \/ Reachable(callArgs.myNodeName, m)}}

UsableAdjLabels ==
  {getAdjLabelFromNode(l, callArgs.myNodeName) :
     l \in {k \in linksFromNode(callArgs.ls, callArgs.myNodeName) :
              UsableLabel(getAdjLabelFromNode(k, callArgs.myNodeName))}}

(* C32: every MPLS entry of the route database built is for a label that   *)
(* is set and in the MPLS range and carries that label; a node label or    *)
(* adjacency label that is zero or out of range has no entry, and every    *)
(* usable node label of a node reached and every usable label of an own    *)
(* adjacency has its entry all the same.                                   *)
C32_MplsLabelsValid ==
  SolverCalled =>
    /\ \A label \in DOMAIN BuiltRouteDb.mplsEntries :
         /\ UsableLabel(label)
         /\ BuiltRouteDb.mplsEntries[label].label = label
    /\ DOMAIN BuiltRouteDb.mplsEntries = UsableNodeLabels \cup UsableAdjLabels

(* a has links to b and c; the node label of c and the label of a's        *)
(* adjacency to c are out of range: there are entries for the node labels  *)
(* of a and b and for the adjacency to b, and no other.                    *)
C32_Witness ==
  /\ SolverCalled
  /\ callArgs.myNodeName = "a"
  /\ ~isMplsLabelValid(NodeLabelOf("c"))
  /\ Cardinality(linksFromNode(callArgs.ls, "a")) = 2
  /\ \E l \in linksFromNode(callArgs.ls, "a") :
       ~isMplsLabelValid(getAdjLabelFromNode(l, "a"))
  /\ DOMAIN BuiltRouteDb.mplsEntries =
       {NodeLabelOf("a"), NodeLabelOf("b")} \cup UsableAdjLabels
  /\ Cardinality(DOMAIN BuiltRouteDb.mplsEntries) = 3

(* Decision::processPublication and the perfEvents of a prefix database.   *)

PerfEventsOfUpdate == TheValue(callArgs.kv.value).db.perfEvents

PrefixUpdateWithPerfEvents ==
  /\ callArgs.fn = "processPublication"
  /\ "kv" \in DOMAIN callArgs
  /\ callArgs.kv.key.marker = "prefix:"
  /\ PerfEventsOfUpdate # None

AdjacencyUpdateWithPerfEvents ==
  /\ callArgs.fn = "processPublication"
  /\ "kv" \in DOMAIN callArgs
  /\ callArgs.kv.key.marker = "adj:"
  /\ PerfEventsOfUpdate # None

(* C33: the perfEvents a prefix database of a publication carries are      *)
(* handed to PendingUpdates with the prefix-state change, as the           *)
(* perfEvents of an adjacency database are with the link-state change.     *)
C33_PrefixPerfEventsAttached ==
  (PrefixUpdateWithPerfEvents \/ AdjacencyUpdateWithPerfEvents)
    => callRet = PerfEventsOfUpdate

(* The adjacency half alone: it holds.                                     *)
C33_AdjacencyPerfEventsAttached ==
  AdjacencyUpdateWithPerfEvents => callRet = PerfEventsOfUpdate

C33_Witness ==
  /\ PrefixUpdateWithPerfEvents
  /\ prefixState_ # callArgs.before.prefixState_
  /\ pendingUpdates_

(* Decision::processPendingUpdates and the routes no longer computed.      *)

(* What route computation gives for the state, no routes counting as the   *)
(* empty database, after the policy.                                       *)
ComputedRouteDb ==
  Bind([computed \in {buildRouteDb(This)} |->
    applyRibPolicy(ribPolicy_, IF computed = None THEN EmptyRouteDb
                               ELSE TheValue(computed))])

DeletedByPush(queue) ==
  [unicast |->
     UNION {SeqToSet(queue[i].delta.unicastRoutesToDelete) :
              i \in {j \in DOMAIN queue : queue[j].kind = "route"}},
   mpls |->
     UNION {SeqToSet(queue[i].delta.mplsRoutesToDelete) :
              i \in {j \in DOMAIN queue : queue[j].kind = "route"}}]

(* The debounce timer fires outside cold start with a route update pending. *)
DebounceRunWithUpdatePending ==
  /\ DebounceRunOutsideColdStart
  /\ pendingUpdates_

StaleRoutesDeleted ==
  /\ DOMAIN routeDb_'.unicastEntries
       \subseteq DOMAIN ComputedRouteDb'.unicastEntries
  /\ DOMAIN routeDb_'.mplsEntries \subseteq DOMAIN ComputedRouteDb'.mplsEntries
  /\ DOMAIN routeDb_.unicastEntries \ DOMAIN ComputedRouteDb'.unicastEntries
       \subseteq DeletedByPush(routeUpdatesQueue_').unicast
  /\ DOMAIN routeDb_.mplsEntries \ DOMAIN ComputedRouteDb'.mplsEntries
       \subseteq DeletedByPush(routeUpdatesQueue_').mpls

(* C34: outside cold start a run of processPendingUpdates with an update   *)
(* pending leaves in routeDb_ no prefix and no label that route            *)
(* computation no longer gives, and has pushed a delta that deletes each   *)
(* one routeDb_ held; also when computation gives no route at all.         *)
C34_StaleRoutesDeleted ==
  [][DebounceRunWithUpdatePending => StaleRoutesDeleted]_vars

(* The same where computation still gives a route: it holds.               *)
C34_StaleRoutesDeletedUnlessEmpty ==
  [][(DebounceRunWithUpdatePending /\ ComputedRouteDb' # EmptyRouteDb)
       => StaleRoutesDeleted]_vars

(* A run that deleted a route no longer computed.                          *)
C34_WitnessDeleted ==
  /\ callArgs.fn = "processPendingUpdates"
  /\ callArgs.needsRouteUpdate
  /\ aborted = ""
  /\ DeletedByPush(routeUpdatesQueue_).unicast # {}
  /\ ComputedRouteDb = routeDb_

(* A run that found nothing to compute and left routeDb_ with its routes.  *)
C34_WitnessStale ==
  /\ callArgs.fn = "processPendingUpdates"
  /\ callArgs.needsRouteUpdate
  /\ aborted = ""
  /\ ComputedRouteDb = EmptyRouteDb
  /\ routeDb_ # EmptyRouteDb
  /\ routeUpdatesQueue_ = << >>

(* The debounce under fair timers.                                         *)

(* A reader fiber has just taken a notification that asks for routes, the  *)
(* cold-start timer having expired or never run.                           *)
NotificationAfterColdStart ==
  /\ ~coldStartTimer_
  /\ \/ callArgs.fn = "KvStoreUpdatesFiber" /\ pendingUpdates_
     \/ callArgs.fn = "StaticRoutesUpdateFiber"

(* processPendingUpdates has run outside cold start and has left nothing   *)
(* pending.                                                                *)
PendingProcessed ==
  /\ DebounceFired
  /\ ~coldStartTimer_
  /\ aborted = ""
  /\ ~pendingUpdates_
  /\ staticRoutesUpdates_ = << >>

(* C35: with time passing and a due debounce timer run, every notification *)
(* taken after cold start that asks for routes is followed by a run of     *)
(* processPendingUpdates which leaves nothing pending, whatever further    *)
(* notifications come.                                                     *)
C35_NotificationProcessed == NotificationAfterColdStart ~> PendingProcessed

(* The same for a process that was configured without cold start.          *)
C35_NotificationProcessedWithoutColdStart ==
  (NotificationAfterColdStart /\ ~config_.eor_time_s) ~> PendingProcessed

(* A notification taken after cold start found the backoff at its maximum  *)
(* and no timer scheduled, and the CHECK of the reader fiber failed.       *)
C35_WitnessAbort ==
  /\ NotificationAfterColdStart
  /\ config_.eor_time_s
  /\ aborted = "CHECK(processUpdatesTimer_->isScheduled())"

(* SpfSolverImpl::runBestPathSelectionBgp and the order of the advertisers. *)

OutcomeOf(ret) ==
  [success |-> ret.success, nodes |-> ret.nodes, bestNode |-> ret.bestNode,
   bestIgpMetric |-> ret.bestIgpMetric]

(* What the call gives when the advertisers are visited in every order.    *)
OutcomesOfOrders ==
  {OutcomeOf(runBestPathSelectionBgpVisiting(
               callArgs.flags, callArgs.myNodeName, callArgs.nodePrefixes,
               callArgs.ls, order)) :
     order \in Orderings(DOMAIN callArgs.nodePrefixes)}

(* C36: the success flag, the nodes, bestNode and bestIgpMetric that       *)
(* runBestPathSelectionBgp returns are those it returns for every other    *)
(* order of visiting the same advertisers over the same link state.        *)
C36_OrderIndependent ==
  BestPathCalled => OutcomesOfOrders = {OutcomeOf(TheValue(callRet))}

(* The same where the selection succeeds in every order: it holds.         *)
C36_OrderIndependentWhenNoOrderTies ==
  (BestPathCalled /\ \A outcome \in OutcomesOfOrders : outcome.success)
    => OutcomesOfOrders = {OutcomeOf(TheValue(callRet))}

(* Three advertisers, all reachable and none tagged: the selection         *)
(* succeeded in the order visited and fails in another one.                *)
C36_WitnessSuccessByOrder ==
  /\ BestPathCalled
  /\ Cardinality(DOMAIN callArgs.nodePrefixes) = 3
  /\ \A n \in DOMAIN callArgs.nodePrefixes :
       Reachable(callArgs.myNodeName, n) /\ ~CarriesIgpCost(n)
  /\ TheValue(callRet).success
  /\ \E outcome \in OutcomesOfOrders : ~outcome.success

(* selectKsp2 and the prepend label of the computing node.                 *)

(* buildRouteDb calls selectKsp2 for prefix p: the prefix passes the       *)
(* checks of the loop, no advertiser asks for SP_ECMP, and                 *)
(* getBestAnnouncingNodes succeeds with at least one node.                 *)
Ksp2Called(p) ==
  /\ ~MixedTypes(p) /\ ~MissingMv(p)
  /\ ~(callArgs.myNodeName \in Advertisers(p) /\ ~HasBgp(p))
  /\ ~V4Disabled(p)
  /\ UsesKsp2(p)
  /\ AnnouncingNodesOf(p).success
  /\ AnnouncingNodesOf(p).nodes # {}

(* selectKsp2 finds the computing node among the nodes it is called with   *)
(* and reads the prepend label of the node's own entry.                    *)
OwnLabelRead(p) ==
  /\ Ksp2Called(p)
  /\ callArgs.myNodeName \in AnnouncingNodesOf(p).nodes

(* C37: whenever buildRouteDb calls selectKsp2 with a set of nodes that    *)
(* holds the computing node, the node advertises the prefix and its entry  *)
(* has a prepend label, for BGP and other prefixes and with overloaded     *)
(* nodes filtered out of the set.                                          *)
C37_OwnPrependLabelPresent ==
  callArgs.fn = "SpfSolverImpl::buildRouteDb" =>
    \A p \in DOMAIN callArgs.prefixes :
      OwnLabelRead(p) =>
        /\ callArgs.myNodeName \in Advertisers(p)
        /\ callArgs.prefixes[p][callArgs.myNodeName].prependLabel # None

(* The other winner is overloaded and filtered out: selectKsp2 was called  *)
(* with the computing node alone.                                          *)
C37_Witness ==
  /\ SolverCalled
  /\ OwnLabelRead(SvcPrefix)
  /\ BestAdvertisers(SvcPrefix) = {"b", "c"}
  /\ AnnouncingNodesOf(SvcPrefix).nodes = {callArgs.myNodeName}
  /\ OverloadedNodes # {}

(* Every winner is overloaded and the set is left as it is: the entry has  *)
(* the static next hop of the node's own label beside the paths.           *)
C37_WitnessEntry ==
  /\ SolverCalled
  /\ OwnLabelRead(SvcPrefix)
  /\ AnnouncingNodesOf(SvcPrefix).nodes = {"b", "c"}
  /\ {"b", "c"} \subseteq OverloadedNodes
  /\ HasOneEntry(SvcPrefix)

(* The next hops of the unicast entries.                                   *)

(* C38: every unicast entry of the route database buildRouteDb returns has *)
(* at least one next hop, also when the destination of an SR_MPLS prefix   *)
(* is not a neighbour and its node label is not valid.                     *)
C38_UnicastNextHopsNotEmpty ==
  SolverCalled =>
    \A p \in DOMAIN BuiltRouteDb.unicastEntries :
      BuiltRouteDb.unicastEntries[p].nexthops # {}

(* The same for the entries of the prefixes that are not forwarded per     *)
(* destination over SR_MPLS by selectEcmpOpenr: it holds.                  *)
C38_NextHopsNotEmptyUnlessPerDestination ==
  SolverCalled =>
    \A p \in DOMAIN BuiltRouteDb.unicastEntries :
      \/ BuiltRouteDb.unicastEntries[p].nexthops # {}
      \/ /\ ~HasBgp(p) /\ ~UsesKsp2(p)
         /\ getPrefixForwardingType(callArgs.prefixes[p]) = "SR_MPLS"

(* c alone advertises an SR_MPLS prefix for SP_ECMP, its node label is out *)
(* of range, and a reaches it through b: the entry of a has no next hop.   *)
C38_WitnessEmpty ==
  /\ SolverCalled
  /\ callArgs.myNodeName = "a"
  /\ SvcPrefix \in DOMAIN BuiltRouteDb.unicastEntries
  /\ Advertisers(SvcPrefix) = {"c"}
  /\ ~isMplsLabelValid(callArgs.ls.adjDbs["c"].nodeLabel)
  /\ BuiltRouteDb.unicastEntries[SvcPrefix].nexthops = {}

(* The static-route deltas processStaticRouteUpdates returns.              *)

(* What a consumer of the returned deltas does with one: erase the deleted *)
(* labels, then store the next hops of the updated routes.                 *)
RECURSIVE StoreStaticUpdates(_, _)
StoreStaticUpdates(table, routes) ==
  IF routes = << >> THEN table
  ELSE StoreStaticUpdates(
         MapPut(table, Head(routes).topLabel, Head(routes).nextHops),
         Tail(routes))

ApplyStaticDelta(table, delta) ==
  StoreStaticUpdates(EraseAll(table, delta.mplsRoutesToDelete),
                     delta.mplsRoutesToUpdate)

(* The same with the updates stored first and the deletes erased last.     *)
ApplyStaticDeltaDeletesLast(table, delta) ==
  EraseAll(StoreStaticUpdates(table, delta.mplsRoutesToUpdate),
           delta.mplsRoutesToDelete)

(* C39: a delta processStaticRouteUpdates returns updates and deletes      *)
(* disjoint sets of labels, each label once, and not both lists are empty; *)
(* staticRoutes_ is the table found with the returned delta applied, in    *)
(* either order of its two lists, and the table found when no delta is     *)
(* returned.  From the empty table of the constructor on, the returned     *)
(* deltas applied in order therefore give staticRoutes_.                   *)
C39_StaticDeltasReconstruct ==
  StaticProcessed =>
    IF callRet = None THEN staticRoutes_ = callArgs.staticRoutes
    ELSE
      LET delta == TheValue(callRet)
          updated == {delta.mplsRoutesToUpdate[i].topLabel :
                        i \in DOMAIN delta.mplsRoutesToUpdate}
          deleted == SeqToSet(delta.mplsRoutesToDelete)
      IN /\ updated \cap deleted = {}
         /\ Cardinality(updated) = Len(delta.mplsRoutesToUpdate)
         /\ Cardinality(deleted) = Len(delta.mplsRoutesToDelete)
         /\ updated \cup deleted # {}
         /\ staticRoutes_ = ApplyStaticDelta(callArgs.staticRoutes, delta)
         /\ staticRoutes_
              = ApplyStaticDeltaDeletesLast(callArgs.staticRoutes, delta)

(* Two queued deltas were squashed into one that updates a label and       *)
(* deletes another, and the table changed with it.                         *)
C39_Witness ==
  /\ StaticProcessed
  /\ Len(callArgs.updates) = 2
  /\ callRet # None
  /\ TheValue(callRet).mplsRoutesToUpdate # << >>
  /\ TheValue(callRet).mplsRoutesToDelete # << >>
  /\ staticRoutes_ # callArgs.staticRoutes

(* Queued deltas cancelled to nothing and no delta was returned.           *)
C39_WitnessNoDelta ==
  /\ StaticProcessed
  /\ Len(callArgs.updates) > 0
  /\ callRet = None

(* Per-prefix keys and the bare key going away.                            *)

(* The entry node n advertises for prefix q in a PrefixState, if any.      *)
AdvertisedEntry(prefixes, n, q) ==
  IF q \in DOMAIN prefixes /\ n \in DOMAIN prefixes[q]
  THEN Some(prefixes[q][n]) ELSE None

AdvertisedPrefixes ==
  DOMAIN prefixState_ \cup DOMAIN callArgs.before.prefixState_

AdvertisingNodes ==
  UNION {DOMAIN prefixState_[q] : q \in DOMAIN prefixState_}
    \cup UNION {DOMAIN callArgs.before.prefixState_[q] :
                  q \in DOMAIN callArgs.before.prefixState_}
    \cup {UpdatedNode}

(* A per-prefix key expired or was updated with deletePrefix.              *)
PerPrefixKeyDeleted ==
  /\ PrefixKeyApplied
  /\ callArgs.key.prefixKey # None
  /\ callArgs.prefixDb.deletePrefix

(* The bare key expired: processPublication builds a database without      *)
(* entries for it.                                                         *)
BareKeyExpired ==
  /\ PrefixKeyApplied
  /\ callArgs.key.prefixKey = None
  /\ callArgs.prefixDb.deletePrefix
  /\ callArgs.prefixDb.prefixEntries = << >>

(* Only the entry of the key's prefix left the per-prefix map; the node    *)
(* advertises the prefix exactly when its full-DB map has it, with the     *)
(* full-DB entry; every other advertisement is as before.                  *)
DeletedKeyUncoversFullDb ==
  LET p == TheValue(callArgs.key.prefixKey)
  IN /\ PerPrefixNow = MapErase(PerPrefixBefore, p)
     /\ FullDbNow = FullDbBefore
     /\ AdvertisedEntry(prefixState_, UpdatedNode, p)
          = (IF p \in DOMAIN FullDbNow THEN Some(FullDbNow[p]) ELSE None)
     /\ \A n \in AdvertisingNodes : \A q \in AdvertisedPrefixes :
          (n # UpdatedNode \/ q # p) =>
            AdvertisedEntry(prefixState_, n, q)
              = AdvertisedEntry(callArgs.before.prefixState_, n, q)

(* The full-DB map is empty, the per-prefix map is as before and each of   *)
(* its entries is advertised; other nodes advertise what they did.         *)
ExpiredBareKeyEmptiesFullDb ==
  /\ DOMAIN FullDbNow = {}
  /\ PerPrefixNow = PerPrefixBefore
  /\ \A q \in DOMAIN PerPrefixNow :
       AdvertisedEntry(prefixState_, UpdatedNode, PerPrefixNow[q].prefix)
         = Some(PerPrefixNow[q])
  /\ \A n \in AdvertisingNodes \ {UpdatedNode} : \A q \in AdvertisedPrefixes :
       AdvertisedEntry(prefixState_, n, q)
         = AdvertisedEntry(callArgs.before.prefixState_, n, q)

(* C40: when a per-prefix key of a node expires or is updated with         *)
(* deletePrefix, the per-prefix map of the node loses the entry of that    *)
(* prefix only, the node advertises the prefix exactly when its full-DB    *)
(* map has it, and every other prefix of the node and every prefix of      *)
(* another node is advertised as before; when the bare key of a node       *)
(* expires, its full-DB map is empty and its per-prefix entries are        *)
(* advertised.                                                             *)
C40_KeyRemovalFrame ==
  /\ PerPrefixKeyDeleted => DeletedKeyUncoversFullDb
  /\ BareKeyExpired => ExpiredBareKeyEmptiesFullDb

(* Every entry of the node's per-prefix map is stored under the key of its *)
(* own prefix.                                                             *)
KeyedByOwnPrefix ==
  \A q \in DOMAIN PerPrefixBefore : PerPrefixBefore[q].prefix = q

(* The same while the per-prefix keys of the node hold entries of their    *)
(* own prefix: it holds.                                                   *)
C40_KeyRemovalFrameWhenKeyedByOwnPrefix ==
  (PrefixKeyApplied /\ KeyedByOwnPrefix) => C40_KeyRemovalFrame

(* The key of the loopback is deleted while the key of the anycast prefix  *)
(* holds an entry of the loopback: b advertises the loopback still, and    *)
(* its full-DB map does not have it.                                       *)
C40_WitnessOtherKey ==
  /\ PerPrefixKeyDeleted
  /\ callArgs.key.prefixKey = Some(LoopbackOf("b"))
  /\ LoopbackOf("b") \in DOMAIN PerPrefixBefore
  /\ LoopbackOf("b") \notin DOMAIN FullDbNow
  /\ AnycastPrefix \in DOMAIN PerPrefixNow
  /\ PerPrefixNow[AnycastPrefix].prefix = LoopbackOf("b")
  /\ AdvertisedEntry(prefixState_, "b", LoopbackOf("b")) # None

(* The key of the loopback is deleted with every key holding its own       *)
(* prefix: the entry of the full database is advertised again.             *)
C40_WitnessUncovered ==
  /\ PerPrefixKeyDeleted
  /\ KeyedByOwnPrefix
  /\ callArgs.key.prefixKey = Some(LoopbackOf("b"))
  /\ LoopbackOf("b") \in DOMAIN PerPrefixBefore
  /\ LoopbackOf("b") \in DOMAIN FullDbNow
  /\ PerPrefixBefore[LoopbackOf("b")] # FullDbNow[LoopbackOf("b")]
  /\ AdvertisedEntry(prefixState_, "b", LoopbackOf("b"))
       = Some(FullDbNow[LoopbackOf("b")])
  /\ AdvertisedEntry(prefixState_, "c", LoopbackOf("c")) # None

(* The bare key expires while a per-prefix key holds an entry: the entry   *)
(* stays advertised and the prefix only the full database had is gone.     *)
C40_WitnessBareKeyExpired ==
  /\ BareKeyExpired
  /\ KeyedByOwnPrefix
  /\ DOMAIN FullDbBefore = {LoopbackOf("b"), AnycastPrefix}
  /\ DOMAIN PerPrefixNow = {LoopbackOf("b")}
  /\ AdvertisedEntry(prefixState_, "b", LoopbackOf("b"))
       = Some(PerPrefixNow[LoopbackOf("b")])
  /\ AdvertisedEntry(prefixState_, "b", AnycastPrefix) = None

====
